---- MODULE Spec2Model ----
(***************************************************************************)
(* Model of the whiteboard sandbox front-end:                              *)
(*   - waitForHealth, the health prober of useSandbox (SpecHealth);        *)
(*   - useSandbox, the host hook: lifecycle effect, message handler,       *)
(*     retry (Spec);                                                       *)
(*   - WhiteboardCanvas / InnerWhiteboard, the embedded view: init         *)
(*     listener, command/jump listener (SpecFrames, SpecView), history     *)
(*     (SpecHistory), backend client (SpecClient), sync effect and         *)
(*     widgets (SpecSync, SpecSyncLive, SpecReconcile), snapshot interval  *)
(*     and strokes (SpecSnapshot), mount and unmount (SpecTeardown), the   *)
(*     handshake with one init message (SpecSingleInit);                   *)
(*   - the older WhiteboardCanvas of part_002 (SpecPushSnapshot);          *)
(*   - the host's message handling (SpecRouter) and its periodic init      *)
(*     re-send (SpecTimer).                                                *)
(* Times are in milliseconds, as in the source.                            *)
(***************************************************************************)
EXTENDS Integers, Sequences, FiniteSets, Bags, TLC

(***************************************************************************)
(* waitForHealth                                                           *)
(***************************************************************************)

\* Date.now() + 90_000
DeadlineMs == 90000
\* setTimeout(() => controller.abort(), 4000)
RequestTimeoutMs == 4000
\* await new Promise(r => setTimeout(r, 1000))
PollSleepMs == 1000

\* Times the endpoint may take to answer a request (all below the abort
\* time) and to deliver a response body.
FetchDelays == {0, 500, 3500}
BodyDelays == {0, 2000}

\* What fetch() settles with: a rejection (network error), the abort raised
\* by the 4 s timer, or a response with a non-2xx or a 2xx status.
FetchOutcomes == {"neterr", "non2xx", "ok2xx"}
\* What res.json() settles with: a parsed value or a rejection.
Bodies == {"okTrue", "okFalse", "noOk", "null", "unparsable"}

VARIABLES
    hpc,        \* position of waitForHealth: idle, check, fetch, body, sleep, done
    now,        \* Date.now()
    deadline,   \* const deadline
    result,     \* what the call settled with: none, true, false, thrown
    polls,      \* health requests issued
    sleeps,     \* 1 s sleeps started
    readyPolls, \* polls answered 2xx with a body whose ok is true
    bodyMs      \* time the current poll spent reading the response body

hvars == <<hpc, now, deadline, result, polls, sleeps, readyPolls, bodyMs>>

\* while (Date.now() < deadline)
LoopContinuesLate(t, d) == t <= d
LoopContinues(t, d) == t < d

\* if (json && json.ok) return true;   (reached only when res.ok)
IsReadyNoBodyCheck(body) == body # "unparsable"
IsReady(body) == body = "okTrue"

\* What a settled request leads to: try { ... } catch {} swallows every
\* rejection, a non-2xx response skips the body, and control reaches the sleep.
AfterFetchNoCatch(o) ==
    CASE o = "ok2xx" -> "body"
      [] o = "non2xx" -> "sleep"
      [] OTHER -> "throw"
AfterFetch(o) ==
    CASE o = "ok2xx" -> "body"
      [] o = "non2xx" -> "sleep"
      [] OTHER -> "sleep"

\* What a settled body read leads to.
AfterBody(b) ==
    CASE b = "unparsable" -> "sleep"
      [] IsReady(b) -> "return"
      [] OTHER -> "sleep"

HealthInit ==
    /\ hpc = "idle"
    /\ now = 0
    /\ deadline = 0
    /\ result = "none"
    /\ polls = 0
    /\ sleeps = 0
    /\ readyPolls = 0
    /\ bodyMs = 0

\* const deadline = Date.now() + 90_000;
wfhCall ==
    /\ hpc = "idle"
    /\ hpc' = "check"
    /\ deadline' = now + DeadlineMs
    /\ UNCHANGED <<now, result, polls, sleeps, readyPolls, bodyMs>>

\* The loop test; a passed test issues the request and arms the 4 s timer.
wfhCheck ==
    /\ hpc = "check"
    /\ IF LoopContinues(now, deadline)
         THEN /\ hpc' = "fetch"
              /\ polls' = polls + 1
              /\ bodyMs' = 0
              /\ UNCHANGED result
         ELSE /\ hpc' = "done"
              /\ result' = "false"
              /\ UNCHANGED <<polls, bodyMs>>
    /\ UNCHANGED <<now, deadline, sleeps, readyPolls>>

wfhSettle(next) ==
    CASE next = "body" -> hpc' = "body" /\ UNCHANGED <<result, sleeps>>
      [] next = "sleep" -> hpc' = "sleep" /\ sleeps' = sleeps + 1 /\ UNCHANGED result
      [] next = "return" -> hpc' = "done" /\ result' = "true" /\ UNCHANGED sleeps
      [] OTHER -> hpc' = "done" /\ result' = "thrown" /\ UNCHANGED sleeps

\* fetch() settles before the abort timer fires.
wfhFetchSettles ==
    /\ hpc = "fetch"
    /\ \E d \in FetchDelays, o \in FetchOutcomes :
          /\ d < RequestTimeoutMs
          /\ now' = now + d
          /\ wfhSettle(AfterFetch(o))
    /\ UNCHANGED <<deadline, polls, readyPolls, bodyMs>>

\* The 4 s timer fires first: controller.abort() rejects the fetch.
wfhAbort ==
    /\ hpc = "fetch"
    /\ now' = now + RequestTimeoutMs
    /\ wfhSettle(AfterFetch("abort"))
    /\ UNCHANGED <<deadline, polls, readyPolls, bodyMs>>

\* await res.json(), after clearTimeout(timeout): no timer bounds it.
wfhBodySettles ==
    /\ hpc = "body"
    /\ \E d \in BodyDelays, b \in Bodies :
          /\ now' = now + d
          /\ bodyMs' = d
          /\ readyPolls' = IF b = "okTrue" THEN readyPolls + 1 ELSE readyPolls
          /\ wfhSettle(AfterBody(b))
    /\ UNCHANGED <<deadline, polls>>

\* The 1 s sleep that follows a poll that did not return.
wfhSleepEnds ==
    /\ hpc = "sleep"
    /\ now' = now + PollSleepMs
    /\ hpc' = "check"
    /\ UNCHANGED <<deadline, result, polls, sleeps, readyPolls, bodyMs>>

HealthNext ==
    \/ wfhCall
    \/ wfhCheck
    \/ wfhFetchSettles
    \/ wfhAbort
    \/ wfhBodySettles
    \/ wfhSleepEnds

(***************************************************************************)
(* useSandbox                                                              *)
(***************************************************************************)

\* Bounds of the model.
MaxTasks == 2      \* launch-and-probe sequences in flight
MaxReplies == 1    \* "ready" replies waiting for the auth-token module
MaxSnapCalls == 1  \* insertSnapshot calls not yet settled

NS == "ai-tutor/wb"
Undefined == "undefined"
Null == "null"
SessionIds == {"s1"}
ConvexUrl == "https://db.example.convex.cloud"
\* Sandbox URLs the backend hands out: the sandbox_url of a session record,
\* and the url launchSandbox resolves with.
UrlA == "https://sbx-a.example/w/1"
UrlB == "https://sbx-b.example/w/2"
SessionUrls == {UrlA}
LaunchUrls == {UrlB}
AuthTokens == {"tok-1", Undefined}

\* new URL(url).origin
Origin(u) ==
    CASE u = UrlA -> "https://sbx-a.example"
      [] u = UrlB -> "https://sbx-b.example"
      [] OTHER -> "TypeError"

\* The value of useQuery(getSession): undefined while loading or skipped,
\* null when there is no such session, otherwise the record.
SessionLoading == [state |-> Undefined, sandbox_url |-> ""]
SessionNull == [state |-> Null, sandbox_url |-> ""]
SessionRecord(u) == [state |-> "record", sandbox_url |-> u]
SessionValues == {SessionNull} \cup {SessionRecord(u) : u \in SessionUrls \cup {""}}

\* Payloads of the "snapshot" messages the host may be sent.
NoPayload == [present |-> FALSE, hasIndex |-> FALSE, index |-> 0,
              hasObjects |-> FALSE, objects |-> <<>>]
SnapshotPayloads ==
    { NoPayload,
      [present |-> TRUE, hasIndex |-> FALSE, index |-> 0,
       hasObjects |-> FALSE, objects |-> <<>>],
      [present |-> TRUE, hasIndex |-> TRUE, index |-> 3,
       hasObjects |-> TRUE, objects |-> <<"a", "b">>] }

\* Message events the host window may be sent (by the iframe or any other
\* window): ev.data absent, a foreign namespace, or the protocol's own.
HostInbound ==
    { [data |-> FALSE, ns |-> "", type |-> "", payload |-> NoPayload] }
    \cup { [data |-> TRUE, ns |-> n, type |-> t, payload |-> NoPayload] :
             n \in {NS, "other"}, t \in {"ready", "widget-error"} }
    \cup { [data |-> TRUE, ns |-> n, type |-> "snapshot", payload |-> p] :
             n \in {NS, "other"}, p \in SnapshotPayloads }

VARIABLES
    sessionId,    \* the hook's argument: a session id or undefined
    session,      \* the session query's value
    status,       \* useState<SandboxStatus>
    url,          \* useState<string | null>
    convexUrl,    \* useState<string | undefined>
    iframe,       \* iframeRef.current?.contentWindow is there
    effDeps,      \* the dependencies the lifecycle effect last ran with
    tasks,        \* bag of the async launch-and-probe sequences in flight
    replies,      \* bag of "ready" replies suspended at the dynamic import
    snapPending,  \* insertSnapshot calls in flight
    idleLaunches, \* launchSandbox calls since status last became idle
    rejectedNoRetry, \* a launch rejected and retry() has not been called since
    out           \* what the step just taken did outside the hook: the
                  \* messages it posted to the iframe, the backend calls it
                  \* made

hostvars == <<sessionId, session, status, url, convexUrl, iframe, effDeps,
              tasks, replies, snapPending, idleLaunches,
              rejectedNoRetry, out>>

Quiet == [posted |-> <<>>, called |-> <<>>]
Posting(m) == [Quiet EXCEPT !.posted = <<m>>]
Calling(c) == [Quiet EXCEPT !.called = <<c>>]

Deps == <<sessionId, session, status>>

LaunchTask == [path |-> "launch", pc |-> "launch", url |-> ""]
ProbeTask(path, u) == [path |-> path, pc |-> "probe", url |-> u]
One(x) == SetToBag({x})
InFlight == BagCardinality(tasks)

HostInit ==
    /\ sessionId \in SessionIds \cup {Undefined}
    /\ session = SessionLoading
    /\ status = "idle"
    /\ url = Null
    /\ convexUrl \in {ConvexUrl, Undefined}
    /\ iframe = FALSE
    /\ effDeps = <<"", SessionLoading, "">>
    /\ tasks = EmptyBag
    /\ replies = EmptyBag
    /\ snapPending = 0
    /\ idleLaunches = 0
    /\ rejectedNoRetry = FALSE
    /\ out = Quiet

\* setStatus(s), with the bookkeeping of the idle periods.
SetStatus(s) ==
    /\ status' = s
    /\ idleLaunches' = IF s = "idle" /\ status # "idle" THEN 0 ELSE idleLaunches

\* The component using the hook is given another session id (or none); the
\* query then reports undefined until the new subscription delivers.
setSessionId ==
    /\ \E s \in SessionIds \cup {Undefined} :
          /\ s # sessionId
          /\ sessionId' = s
    /\ session' = SessionLoading
    /\ out' = Quiet
    /\ UNCHANGED <<status, url, convexUrl, iframe, effDeps, tasks, replies,
                   snapPending, idleLaunches, rejectedNoRetry>>

\* The session query delivers a new value.
sessionUpdate(s) ==
    /\ sessionId # Undefined
    /\ s # session
    /\ session' = s
    /\ out' = Quiet
    /\ UNCHANGED <<sessionId, status, url, convexUrl, iframe, effDeps, tasks,
                   replies, snapPending, idleLaunches, rejectedNoRetry>>

\* if (status === "idle") { ... setStatus("starting"); launchSandbox(...) }
LaunchGuard(st) == st = "idle"

\* setStatus("starting") at the head of the launch path.
LaunchStartStatusIdle == "idle"
LaunchStartStatus == "starting"

\* The lifecycle effect, run after a render in which one of sessionId,
\* session, status differs from the last run.
lifecycleEffect ==
    /\ Deps # effDeps
    /\ effDeps' = Deps
    /\ IF sessionId = Undefined \/ session = SessionLoading
         THEN /\ out' = Quiet
              /\ UNCHANGED <<status, tasks, idleLaunches>>
       ELSE IF session = SessionNull
         THEN /\ SetStatus("error")
              /\ out' = Quiet
              /\ UNCHANGED tasks
       ELSE IF session.sandbox_url # ""
         THEN \* reattach: the probe starts whatever the status is
              /\ InFlight < MaxTasks
              /\ IF status = "idle" THEN SetStatus("starting")
                                    ELSE UNCHANGED <<status, idleLaunches>>
              /\ tasks' = tasks (+) One(ProbeTask("reattach", session.sandbox_url))
              /\ out' = Quiet
       ELSE IF LaunchGuard(status)
         THEN /\ InFlight < MaxTasks
              /\ status' = LaunchStartStatus
              /\ idleLaunches' = idleLaunches + 1
              /\ tasks' = tasks (+) One(LaunchTask)
              /\ out' = Calling([op |-> "launchSandbox", sessionId |-> sessionId])
       ELSE /\ out' = Quiet
            /\ UNCHANGED <<status, tasks, idleLaunches>>
    /\ UNCHANGED <<sessionId, session, url, convexUrl, iframe, replies,
                   snapPending, rejectedNoRetry>>

\* await launchSandbox({ sessionId }) resolves with resp.url = u; the task
\* goes on to waitForHealth(resp.url).
launchResolves ==
    /\ BagIn(LaunchTask, tasks)
    /\ \E u \in LaunchUrls :
          tasks' = (tasks (-) One(LaunchTask)) (+) One(ProbeTask("launch", u))
    /\ out' = Quiet
    /\ UNCHANGED <<sessionId, session, status, url, convexUrl, iframe,
                   effDeps, replies, snapPending, idleLaunches,
                   rejectedNoRetry>>

\* catch (err) { console.error(...); setStatus("error"); }
StatusOnLaunchErrorIdle == "idle"
StatusOnLaunchError == "error"

\* await launchSandbox({ sessionId }) rejects.
launchRejects ==
    /\ BagIn(LaunchTask, tasks)
    /\ tasks' = tasks (-) One(LaunchTask)
    /\ SetStatus(StatusOnLaunchError)
    /\ rejectedNoRetry' = TRUE
    /\ out' = Quiet
    /\ UNCHANGED <<sessionId, session, url, convexUrl, iframe, effDeps,
                   replies, snapPending>>

\* if (healthy) { setUrl(u); setStatus("ready"); }   (both paths; neither
\* has an else branch)
UrlOnHealthy(t) == t.url

\* The status after waitForHealth returned false: the one there was.
StatusOnUnhealthyReattachError(t, st) ==
    IF t.path = "reattach" THEN "error" ELSE st
StatusOnUnhealthy(t, st) == st

\* await waitForHealth(u) settles, with true or false.
probeSettles(t, healthy) ==
    /\ BagIn(t, tasks)
    /\ t.pc = "probe"
    /\ tasks' = tasks (-) One(t)
    /\ IF healthy
         THEN /\ url' = UrlOnHealthy(t)
              /\ SetStatus("ready")
         ELSE /\ SetStatus(StatusOnUnhealthy(t, status))
              /\ UNCHANGED url
    /\ out' = Quiet
    /\ UNCHANGED <<sessionId, session, convexUrl, iframe, effDeps, replies,
                   snapPending, rejectedNoRetry>>

\* retry: () => setStatus("idle")
retry ==
    /\ SetStatus("idle")
    /\ rejectedNoRetry' = FALSE
    /\ out' = Quiet
    /\ UNCHANGED <<sessionId, session, url, convexUrl, iframe, effDeps,
                   tasks, replies, snapPending>>

\* fetch("/api/convex-url") delivers the backend URL when the environment
\* variable did not.
convexUrlLoaded ==
    /\ convexUrl = Undefined
    /\ convexUrl' = ConvexUrl
    /\ out' = Quiet
    /\ UNCHANGED <<sessionId, session, status, url, iframe, effDeps, tasks,
                   replies, snapPending, idleLaunches, rejectedNoRetry>>

\* The component using the hook renders or removes the <iframe ref={iframeRef}>.
iframeToggle ==
    /\ iframe' = ~iframe
    /\ out' = Quiet
    /\ UNCHANGED <<sessionId, session, status, url, convexUrl, effDeps, tasks,
                   replies, snapPending, idleLaunches, rejectedNoRetry>>

\* JSON.stringify of a list of objects, as the text's tokens.
RECURSIVE StringifyItems(_)
StringifyItems(objs) ==
    IF Len(objs) = 0 THEN <<>>
    ELSE IF Len(objs) = 1 THEN <<objs[1]>>
    ELSE <<objs[1], ",">> \o StringifyItems(Tail(objs))
Stringify(objs) == <<"[">> \o StringifyItems(objs) \o <<"]">>

\* if (!url) return;  if (data?.ns !== "ai-tutor/wb") return;
HostAcceptsWithoutUrl(m) == m.data /\ m.ns = NS
HostAccepts(m) == url # Null /\ m.data /\ m.ns = NS

\* The "init" message of the handshake reply, posted with the origin of the
\* sandbox URL as target.
InitMessageWildcard(r, tok) ==
    [ns |-> NS, v |-> 1, type |-> "init", sessionId |-> r.sessionId,
     convexUrl |-> r.convexUrl, token |-> tok, target |-> "*"]
InitMessage(r, tok) ==
    [ns |-> NS, v |-> 1, type |-> "init", sessionId |-> r.sessionId,
     convexUrl |-> r.convexUrl, token |-> tok, target |-> Origin(r.url)]

\* insertSnapshot({ sessionId, snapshotIndex: idx, actionsJson })
SnapshotCallIndexZero(p) ==
    [op |-> "insertSnapshot", sessionId |-> sessionId, snapshotIndex |-> 0,
     actionsJson |-> Stringify(IF p.present /\ p.hasObjects THEN p.objects ELSE <<>>)]
SnapshotCall(p) ==
    [op |-> "insertSnapshot", sessionId |-> sessionId,
     snapshotIndex |-> IF p.present /\ p.hasIndex THEN p.index ELSE 0,
     actionsJson |-> Stringify(IF p.present /\ p.hasObjects THEN p.objects ELSE <<>>)]

\* handleMessage(ev), up to its first suspension: the "ready" branch parses
\* the URL and suspends at the dynamic import of the auth-token module, with
\* url, sessionId and convexUrl as the callback captured them.
handleMessage(m) ==
    /\ IF ~HostAccepts(m)
         THEN /\ out' = Quiet
              /\ UNCHANGED <<status, idleLaunches, replies, snapPending>>
       ELSE IF m.type = "ready"
         THEN IF Origin(url) = "TypeError"
                THEN /\ SetStatus("ready")
                     /\ out' = Quiet
                     /\ UNCHANGED <<replies, snapPending>>
                ELSE /\ BagCardinality(replies) < MaxReplies
                     /\ replies' = replies (+)
                           One([url |-> url, sessionId |-> sessionId,
                                convexUrl |-> convexUrl])
                     /\ out' = Quiet
                     /\ UNCHANGED <<status, idleLaunches, snapPending>>
       ELSE IF m.type = "snapshot" /\ sessionId # Undefined
         THEN /\ snapPending < MaxSnapCalls
              /\ snapPending' = snapPending + 1
              /\ out' = Calling(SnapshotCall(m.payload))
              /\ UNCHANGED <<status, idleLaunches, replies>>
       ELSE /\ out' = Quiet
            /\ UNCHANGED <<status, idleLaunches, replies, snapPending>>
    /\ UNCHANGED <<sessionId, session, url, convexUrl, iframe, effDeps,
                   tasks, rejectedNoRetry>>

\* The rest of the "ready" branch: the import settles; when it resolved and
\* the iframe's window is there the init message is posted with the token
\* getAuthToken() returns; in every case setStatus("ready") follows the try
\* block.
readyReplySettles(r, importOk, tok) ==
    /\ BagIn(r, replies)
    /\ replies' = replies (-) One(r)
    /\ IF importOk /\ iframe
         THEN out' = Posting(InitMessage(r, tok))
         ELSE out' = Quiet
    /\ SetStatus("ready")
    /\ UNCHANGED <<sessionId, session, url, convexUrl, iframe, effDeps, tasks,
                   snapPending, rejectedNoRetry>>

\* insertSnapshot(...) settles; .catch(err => console.error(...)) only logs.
insertSnapshotSettles(ok) ==
    /\ snapPending > 0
    /\ snapPending' = snapPending - 1
    /\ out' = Quiet
    /\ UNCHANGED <<sessionId, session, status, url, convexUrl, iframe, effDeps,
                   tasks, replies, idleLaunches, rejectedNoRetry>>

ReplyValues ==
    [url : SessionUrls \cup LaunchUrls, sessionId : SessionIds \cup {Undefined},
     convexUrl : {ConvexUrl, Undefined}]
ProbeTasks ==
    {ProbeTask("reattach", u) : u \in SessionUrls}
    \cup {ProbeTask("launch", u) : u \in LaunchUrls}

(***************************************************************************)
(* WhiteboardCanvas and InnerWhiteboard, the embedded view                 *)
(***************************************************************************)

\* if (h.length >= 50) h.shift();
HistoryCap == 50
\* Bounds of the model.
MaxHistory == 2   \* history length up to which SpecFrames and SpecView sync
MaxPushes == 52   \* sync effects with a push in a run of SpecHistory
MaxZoom == 2      \* zoom factors a setZoom command may carry

\* WhiteboardCanvas.tsx holds two definitions of the component; they differ,
\* in what is modelled here, in the guard of cmdListener, in the kinds the
\* sync loop draws, in the widget branch, and in the listeners initFabric
\* registers on the canvas.  The older component of part_002 is a third
\* value, "part_002", with actions of its own.
VARIABLE build

Builds == {"first", "second"}

\* Object specifications the backend query may deliver.
ObjRect == [id |-> "r1", kind |-> "rect", points |-> 0, entry |-> ""]
ObjInk == [id |-> "i1", kind |-> "ink", points |-> 0, entry |-> ""]
ObjStar == [id |-> "x1", kind |-> "star", points |-> 0, entry |-> ""]
BackendLists == {<<ObjRect>>, <<ObjStar, ObjInk>>}
\* A widget, and a line of two points.
ObjWidget == [id |-> "w1", kind |-> "widget", points |-> 0, entry |-> "quiz"]
ObjLine == [id |-> "l1", kind |-> "line", points |-> 2, entry |-> ""]

\* The fabric class the sync loop instantiates for a kind.  In the second
\* definition a line or an arrow is drawn only when it carries at least two
\* points; the first definition draws ink, rect, ellipse and arrow, the
\* arrow from its end points.
ShapeOfSecond(obj) ==
    CASE obj.kind = "ink" -> "Path"
      [] obj.kind = "rect" -> "Rect"
      [] obj.kind = "ellipse" -> "Ellipse"
      [] obj.kind = "line" /\ obj.points >= 2 -> "Line"
      [] obj.kind = "arrow" /\ obj.points >= 2 -> "Group"
      [] obj.kind = "text" -> "Textbox"
      [] OTHER -> "none"
ShapeOfFirst(obj) ==
    CASE obj.kind = "ink" -> "Path"
      [] obj.kind = "rect" -> "Rect"
      [] obj.kind = "ellipse" -> "Ellipse"
      [] obj.kind = "arrow" -> "Group"
      [] OTHER -> "none"
ShapeOf(obj) == IF build = "first" THEN ShapeOfFirst(obj) ELSE ShapeOfSecond(obj)

\* The sync loop: one primitive per object of a drawn kind, tagged with
\* metadata = { id }, in list order.
RECURSIVE PrimitivesStopAtUnknown(_)
PrimitivesStopAtUnknown(objs) ==
    IF objs = <<>> THEN <<>>
    ELSE LET o == Head(objs) IN
         IF ShapeOf(o) = "none" /\ o.kind # "widget" THEN <<>>
         ELSE (IF ShapeOf(o) = "none" THEN <<>>
               ELSE <<[shape |-> ShapeOf(o), id |-> o.id]>>)
              \o PrimitivesStopAtUnknown(Tail(objs))
RECURSIVE Primitives(_)
Primitives(objs) ==
    IF objs = <<>> THEN <<>>
    ELSE LET o == Head(objs) IN
         (IF ShapeOf(o) = "none" THEN <<>>
          ELSE <<[shape |-> ShapeOf(o), id |-> o.id]>>)
         \o Primitives(Tail(objs))

\* canvas.toJSON(["selectable"]).objects: the serialised primitives; the
\* metadata tag is not among the serialised properties.
ToJSON(prims) == [i \in 1..Len(prims) |-> [shape |-> prims[i].shape]]
\* loadFromJSON({ objects }): the primitives revived from their serialised form.
LoadFromJSON(json) == [i \in 1..Len(json) |-> [shape |-> json[i].shape, id |-> ""]]

\* Object lists a "jump" message may carry.
JumpLists == {<<>>, <<[shape |-> "Rect"]>>}

NoInit == [set |-> FALSE, sessionId |-> "", convexUrl |-> "", token |-> ""]
NoClient == [built |-> FALSE, url |-> "", token |-> ""]
NoCanvas == [exists |-> FALSE, objects |-> <<>>, evented |-> FALSE,
             selection |-> FALSE, zoom |-> 1]
\* new fabric.Canvas(el, { selection: false, ... })
NewCanvas == [exists |-> TRUE, objects |-> <<>>, evented |-> TRUE,
              selection |-> FALSE, zoom |-> 1]

\* Message events the embedded window may be sent.  A field the payload
\* does not carry is "" (0 for zoom); hasObjects tells whether a jump
\* carries a list.
EmbMessage(d, n, t, sid, cu, tok, act, z, ho, objs) ==
    [data |-> d, ns |-> n, type |-> t, sessionId |-> sid, convexUrl |-> cu,
     token |-> tok, action |-> act, zoom |-> z, hasObjects |-> ho,
     objects |-> objs]
EmbInbound ==
    { EmbMessage(FALSE, "", "", "", "", "", "", 0, FALSE, <<>>) }
    \cup { EmbMessage(TRUE, n, "init", sid, cu, tok, "", 0, FALSE, <<>>) :
             n \in {NS, "other"}, sid \in SessionIds \cup {""},
             cu \in {ConvexUrl, ""}, tok \in {"tok-1"} }
    \cup { EmbMessage(TRUE, n, "command", "", "", "", a, 0, FALSE, <<>>) :
             n \in {NS, "other"}, a \in {"undo", "redo", "setZoom"} }
    \cup { EmbMessage(TRUE, n, "command", "", "", "", "setZoom", MaxZoom, FALSE, <<>>) :
             n \in {NS, "other"} }
    \cup { EmbMessage(TRUE, n, "jump", "", "", "", "", 0, TRUE, objs) :
             n \in {NS, "other"}, objs \in JumpLists }
    \cup { EmbMessage(TRUE, NS, "jump", "", "", "", "", 0, FALSE, <<>>) }

VARIABLES
    init,          \* useState: the captured init payload, or null
    client,        \* convexClientRef.current
    view,          \* what WhiteboardCanvas last rendered: connecting, inner;
                   \* gone once InnerWhiteboard is unmounted; canvas for
                   \* the older component, which renders its canvas at once
    fabricLoaded,  \* the module-level fabric has been assigned
    fabricPending, \* initFabric calls suspended at import("fabric")
    canvas,        \* fabricCanvasRef.current and the canvas it refers to
    widgets,       \* the elements of the widget overlay layer
    history,       \* historyRef.current
    cursor,        \* historyIndexRef.current
    historyMode,   \* isHistoryMode
    banner,        \* historyBanner
    objects,       \* the value of the whiteboard-objects query
    heard,         \* the listener the last message event ran, and whether
                   \* the event carried the protocol's namespace
    clock,         \* Date.now() in the embedded window, in ms
    lastSnapshotTs,   \* lastSnapshotTsRef.current
    mutationCounter,  \* mutationCounterRef.current
    snapshotInterval, \* snapshotIntervalRef.current: the interval and the
                      \* time it fires next
    adds,          \* path:created handlers suspended at await addWhiteboardObject
    orphans,       \* widget roots still to render whose host element was
                   \* removed from the overlay layer
    eout           \* what the step just taken by the embedded view did
                   \* outside it: the messages it posted to window.parent,
                   \* and whether it asked the canvas to render

\* The snapshot bookkeeping of InnerWhiteboard.
snapstate == <<lastSnapshotTs, mutationCounter, snapshotInterval, adds>>

embvars == <<init, client, view, fabricLoaded, fabricPending, canvas, widgets,
             history, cursor, historyMode, banner, objects, heard, clock,
             snapstate, orphans, eout>>

\* setInterval(..., 5000)
SnapshotCheckMs == 5000

\* set: the ref holds an interval id; running: the interval the ref names
\* is active; active: the intervals of this view that are active, named
\* by the ref or not.
NoInterval == [set |-> FALSE, running |-> FALSE, due |-> 0, active |-> 0]
EQuiet == [posted |-> <<>>, rendered |-> FALSE]
EPosting(m) == [EQuiet EXCEPT !.posted = <<m>>]
Rendering == [EQuiet EXCEPT !.rendered = TRUE]

NotLoaded == [loaded |-> FALSE, list |-> <<>>]

EmbInit ==
    /\ init = NoInit
    /\ client = NoClient
    /\ view = "connecting"
    /\ fabricLoaded = FALSE
    /\ fabricPending = 0
    /\ canvas = NoCanvas
    /\ widgets = <<>>
    /\ history = <<>>
    /\ cursor = -1
    /\ historyMode = FALSE
    /\ banner = FALSE
    /\ objects = NotLoaded
    /\ heard = <<>>
    /\ clock = 0
    /\ lastSnapshotTs = 0
    /\ mutationCounter = 0
    /\ snapshotInterval = NoInterval
    /\ adds = 0
    /\ orphans = 0
    /\ eout = EQuiet

Heard(who, m) == <<who, IF m.data /\ m.ns = NS THEN "protocol" ELSE "foreign">>

\* pushHistory(): the history and cursor it leaves, given the canvas.
PushHistoryNoCap(h, c, cv) ==
    IF ~cv.exists THEN [history |-> h, cursor |-> c]
    ELSE [history |-> Append(h, ToJSON(cv.objects)), cursor |-> Len(h)]
PushHistoryCursorAtLength(h, c, cv) ==
    IF ~cv.exists THEN [history |-> h, cursor |-> c]
    ELSE LET kept == IF Len(h) >= HistoryCap THEN Tail(h) ELSE h
             h2 == Append(kept, ToJSON(cv.objects))
         IN [history |-> h2, cursor |-> IF Len(h) >= HistoryCap THEN Len(h2) ELSE Len(h2) - 1]
PushHistoryDropsRedoTail(h, c, cv) ==
    IF ~cv.exists THEN [history |-> h, cursor |-> c]
    ELSE LET upto == SubSeq(h, 1, c + 1)
             kept == IF Len(upto) >= HistoryCap THEN Tail(upto) ELSE upto
             h2 == Append(kept, ToJSON(cv.objects))
         IN [history |-> h2, cursor |-> Len(h2) - 1]
PushHistory(h, c, cv) ==
    IF ~cv.exists THEN [history |-> h, cursor |-> c]
    ELSE LET kept == IF Len(h) >= HistoryCap THEN Tail(h) ELSE h
             h2 == Append(kept, ToJSON(cv.objects))
         IN [history |-> h2, cursor |-> Len(h2) - 1]

\* if (!ev.data || ev.data.ns !== "ai-tutor/wb") return;
EmbAcceptsAnyNs(m) == m.data
EmbAccepts(m) == m.data /\ m.ns = NS

\* The message event of the step just taken by a listener of the embedded
\* view, when the view is looked at on its own (SpecView).
VARIABLE event

\* What SpecHistory observes of the history: the number of pushHistory
\* calls made on the canvas so far, and, when the command just handled was
\* an undo (or the redo or the sync effect right after it), the cursor and
\* the serialised canvas as they were before that undo.
VARIABLES pushes, pair

\* What SpecSnapshot observes of the snapshot messages: the time of the
\* last one the interval sent (the time InnerWhiteboard mounted, before the
\* first), the strokes stored in the backend since then, and the time
\* since the last snapshot message of any origin, counted up to the 5 s of
\* the interval (-1 before the first).  What SpecPushSnapshot observes of
\* them: the index values of the snapshot messages posted so far.
VARIABLES flushedAt, strokes, sinceSent, sent

snapobs == <<flushedAt, strokes, sinceSent, sent>>

obs == <<event, build, pushes, pair, snapobs>>

NoPair == [phase |-> "none", cursor |-> -1, shown |-> <<>>]

NoEvent == EmbMessage(FALSE, "", "none", "", "", "", "", 0, FALSE, <<>>)

\* ev.data.payload?.sessionId is there, and convexUrl is (otherwise the
\* message is logged and dropped).
InitUsableNoUrlCheck(m) == m.sessionId # ""
InitUsable(m) == m.sessionId # "" /\ m.convexUrl # ""

\* The client effect, run after setInit({ sessionId, convexUrl, token }):
\* if (!init || convexClientRef.current) return;
\* convexClientRef.current = new ConvexReactClient(init.convexUrl), with
\* setAuth when the payload carries a token.
ClientAfterRebuilt(c, m) ==
    [built |-> TRUE, url |-> m.convexUrl, token |-> m.token]
ClientAfter(c, m) ==
    IF c.built THEN c
    ELSE [built |-> TRUE, url |-> m.convexUrl, token |-> m.token]

\* The session id InnerWhiteboard is rendered with, if it is rendered.
SessionInUse == IF view = "inner" THEN init.sessionId ELSE ""

\* if (snapshotIntervalRef.current !== null) clearInterval(snapshotIntervalRef.current);
\* snapshotIntervalRef.current = window.setInterval(..., 5000), at time t.
IntervalReset(iv, t) ==
    [set |-> TRUE, running |-> TRUE, due |-> t + SnapshotCheckMs,
     active |-> (IF iv.set /\ iv.running THEN iv.active - 1 ELSE iv.active) + 1]

\* The cleanup of the timer effect, at unmount:
\* if (snapshotIntervalRef.current !== null) clearInterval(snapshotIntervalRef.current);
IntervalCleared(iv) ==
    IF iv.set /\ iv.running
      THEN [iv EXCEPT !.running = FALSE, !.active = iv.active - 1]
      ELSE iv

\* The init message names another session than the one InnerWhiteboard is
\* rendered with.
SessionChanges(m) == view = "inner" /\ m.sessionId # init.sessionId

\* WhiteboardCanvas.handleMessage(ev), with the render and the effects that
\* setInit brings: the render shows InnerWhiteboard only when the client
\* ref is already set; the client effect then builds the client if there
\* is none; a first render of InnerWhiteboard runs its fabric effect.
viewHandleMessage(m) ==
    /\ view # "gone"
    /\ heard' = Heard("view", m)
    /\ IF EmbAccepts(m) /\ m.type = "init" /\ InitUsable(m)
         THEN /\ init' = [set |-> TRUE, sessionId |-> m.sessionId,
                          convexUrl |-> m.convexUrl, token |-> m.token]
              /\ view' = IF client.built THEN "inner" ELSE "connecting"
              /\ client' = ClientAfter(client, m)
              /\ IF view = "connecting" /\ client.built
                   THEN \* InnerWhiteboard mounts: useRef(Date.now()),
                        \* initFabric()
                        /\ lastSnapshotTs' = clock
                        /\ IF fabricLoaded
                             THEN /\ canvas' = NewCanvas
                                  /\ history' = PushHistory(history, cursor, NewCanvas).history
                                  /\ cursor' = PushHistory(history, cursor, NewCanvas).cursor
                                  /\ snapshotInterval' = IntervalReset(snapshotInterval, clock)
                                  /\ UNCHANGED fabricPending
                             ELSE /\ fabricPending' = fabricPending + 1
                                  /\ UNCHANGED <<canvas, history, cursor,
                                                 snapshotInterval>>
                        /\ UNCHANGED objects
                   ELSE IF SessionChanges(m)
                   THEN \* the sessionId prop changes: the query starts over
                        \* for the new session; the fabric effect is
                        \* cleaned up (the canvas disposed) and runs again
                        /\ objects' = NotLoaded
                        /\ IF fabricLoaded
                             THEN /\ canvas' = NewCanvas
                                  /\ history' = PushHistory(history, cursor, NewCanvas).history
                                  /\ cursor' = PushHistory(history, cursor, NewCanvas).cursor
                                  /\ snapshotInterval' = IntervalReset(snapshotInterval, clock)
                                  /\ UNCHANGED fabricPending
                             ELSE /\ fabricPending' = fabricPending + 1
                                  /\ UNCHANGED <<canvas, history, cursor,
                                                 snapshotInterval>>
                        /\ UNCHANGED lastSnapshotTs
                   ELSE UNCHANGED <<canvas, history, cursor, fabricPending,
                                    lastSnapshotTs, snapshotInterval, objects>>
         ELSE UNCHANGED <<init, client, view, canvas, history, cursor,
                          fabricPending, lastSnapshotTs, snapshotInterval,
                          objects>>
    /\ eout' = EQuiet
    /\ UNCHANGED <<fabricLoaded, widgets, historyMode, banner,
                   clock, mutationCounter, adds, orphans>>

\* import("fabric") resolves and initFabric goes on: the canvas is created,
\* stored in the ref, the blank state is pushed, and the snapshot interval
\* is set.
fabricImported ==
    /\ view # "gone"
    /\ fabricPending > 0
    /\ fabricPending' = fabricPending - 1
    /\ fabricLoaded' = TRUE
    /\ canvas' = NewCanvas
    /\ history' = PushHistory(history, cursor, NewCanvas).history
    /\ cursor' = PushHistory(history, cursor, NewCanvas).cursor
    /\ snapshotInterval' = IntervalReset(snapshotInterval, clock)
    /\ heard' = <<>>
    /\ eout' = EQuiet
    /\ UNCHANGED <<init, client, view, widgets, historyMode, banner, objects,
                   clock, lastSnapshotTs, mutationCounter, adds, orphans>>

\* InnerWhiteboard unmounts: the cleanup of the fabric effect disposes the
\* canvas the ref names, if any (the ref keeps naming it); the cleanup of
\* the timer effect clears the interval the ref names, if any; React
\* removes the listeners and sets canvasRef and containerRef to null.
innerUnmounts ==
    /\ view = "inner"
    /\ view' = "gone"
    /\ snapshotInterval' = IntervalCleared(snapshotInterval)
    /\ widgets' = <<>>
    /\ heard' = <<>>
    /\ eout' = EQuiet
    /\ UNCHANGED <<init, client, fabricLoaded, fabricPending, canvas, history,
                   cursor, historyMode, banner, objects, clock, lastSnapshotTs,
                   mutationCounter, adds, orphans>>

\* What initFabric meets when it goes on after the unmount.  The second
\* definition reads containerRef.current.getBoundingClientRect() first:
\* the ref is null, the read throws and initFabric ends there.  The first
\* definition calls new fabric.Canvas(canvasRef.current, ...) with a null
\* element, which the library either refuses by throwing or serves with a
\* canvas element of its own.
ResumeOutcomes ==
    IF build = "second" THEN {"throws"} ELSE {"throws", "creates"}

\* import("fabric") resolves after InnerWhiteboard has been unmounted.
fabricImportedGone(outcome) ==
    /\ view = "gone"
    /\ fabricPending > 0
    /\ outcome \in ResumeOutcomes
    /\ fabricPending' = fabricPending - 1
    /\ fabricLoaded' = TRUE
    /\ IF outcome = "creates"
         THEN /\ canvas' = NewCanvas
              /\ history' = PushHistory(history, cursor, NewCanvas).history
              /\ cursor' = PushHistory(history, cursor, NewCanvas).cursor
              /\ snapshotInterval' = IntervalReset(snapshotInterval, clock)
         ELSE UNCHANGED <<canvas, history, cursor, snapshotInterval>>
    /\ heard' = <<>>
    /\ eout' = EQuiet
    /\ UNCHANGED <<init, client, view, widgets, historyMode, banner, objects,
                   clock, lastSnapshotTs, mutationCounter, adds, orphans>>

\* The widget branch of the sync loop: one host element per widget object,
\* appended to the overlay layer in list order.  The second definition
\* renders a React root into it (ErrorBoundary, Suspense, the lazily
\* imported widget), which is still to render when the loop goes on; the
\* first definition writes a label into it.
WidgetHost(o) ==
    [entry |-> o.entry, state |-> IF build = "second" THEN "pending" ELSE "label"]
Hosts(list) ==
    LET ws == SelectSeq(list, LAMBDA o : o.kind = "widget")
    IN [i \in 1..Len(ws) |-> WidgetHost(ws[i])]

\* canvas.clear(), then the loop's canvas.add calls: the canvas's objects
\* after the sync effect, given the ones before it.
SyncedObjectsNoClear(old, list) == old \o Primitives(list)
SyncedObjects(old, list) == Primitives(list)

\* The roots of the overlay layer that are still to render.
PendingRoots(ws) == Cardinality({i \in 1..Len(ws) : ws[i].state = "pending"})

\* The query's value differs from the list it last delivered.
ListChanges(list) == objects # [loaded |-> TRUE, list |-> list]

\* The objects query delivers a list; the sync effect, when the canvas
\* exists, clears the canvas and the overlay layer (innerHTML = "", which
\* removes the host elements and leaves their roots alone), rebuilds both
\* from the list, asks the canvas to render, and pushes the result to the
\* history.
objectsDelivered(list) ==
    /\ view = "inner"
    /\ objects' = [loaded |-> TRUE, list |-> list]
    /\ IF canvas.exists
         THEN /\ canvas' = [canvas EXCEPT !.objects = SyncedObjects(canvas.objects, list)]
              /\ widgets' = Hosts(list)
              /\ orphans' = orphans + PendingRoots(widgets)
              /\ history' = PushHistory(history, cursor, canvas').history
              /\ cursor' = PushHistory(history, cursor, canvas').cursor
              /\ eout' = Rendering
         ELSE /\ eout' = EQuiet
              /\ UNCHANGED <<canvas, widgets, orphans, history, cursor>>
    /\ heard' = <<>>
    /\ UNCHANGED <<init, client, view, fabricLoaded, fabricPending,
                   historyMode, banner, clock, snapstate>>

\* Values a widget may throw while it renders.
Errors == {[name |-> "Error", message |-> "boom"],
           [name |-> "TypeError", message |-> "x is not a function"]}
NoError == [name |-> "", message |-> ""]

\* String(error), for an Error object: its name, ": ", its message.
ErrorText(e) == <<e.name, ": ", e.message>>

\* { ns: "ai-tutor/wb", v: 1, type: "widget-error", payload: { error: String(error), info } }
WidgetErrorMessage(e) ==
    [ns |-> NS, v |-> 1, type |-> "widget-error", payload |-> [error |-> ErrorText(e)]]

\* ErrorBoundary.componentDidCatch(error, info): what is posted to the parent.
CaughtPostsNothing(e) == EQuiet
CaughtPosts(e) == EPosting(WidgetErrorMessage(e))

\* The state of a root once its render has ended: the widget is shown, or
\* getDerivedStateFromError has put the boundary's fallback in its place.
RootAfter(e) == IF e = NoError THEN "shown" ELSE "fallback"

\* The root of the i-th host element of the overlay layer renders; the
\* widget (or its lazy import) throws e, or nothing.
widgetRenders(i, e) ==
    /\ i \in 1..Len(widgets)
    /\ widgets[i].state = "pending"
    /\ widgets' = [widgets EXCEPT ![i].state = RootAfter(e)]
    /\ eout' = IF e = NoError THEN EQuiet ELSE CaughtPosts(e)
    /\ heard' = <<>>
    /\ UNCHANGED <<init, client, view, fabricLoaded, fabricPending, canvas,
                   history, cursor, historyMode, banner, objects, clock,
                   snapstate, orphans>>

\* A root whose host element was removed from the layer renders.
orphanRenders(e) ==
    /\ orphans > 0
    /\ orphans' = orphans - 1
    /\ eout' = IF e = NoError THEN EQuiet ELSE CaughtPosts(e)
    /\ heard' = <<>>
    /\ UNCHANGED <<init, client, view, fabricLoaded, fabricPending, canvas,
                   widgets, history, cursor, historyMode, banner, objects,
                   clock, snapstate>>

\* if (Date.now() - lastSnapshotTsRef.current >= 60000 || mutationCounterRef.current >= 20)
SnapshotMaxAgeMs == 60000
MutationThreshold == 20
FlushDueStrict(t, ts, n) == t - ts > SnapshotMaxAgeMs \/ n > MutationThreshold
FlushDue(t, ts, n) == t - ts >= SnapshotMaxAgeMs \/ n >= MutationThreshold

\* { ns:"ai-tutor/wb", type:"snapshot", payload:{ index: Date.now(), objects } }
\* (v |-> 0: the message carries no v field)
SnapshotMessage(t, objs) ==
    [ns |-> NS, v |-> 0, type |-> "snapshot",
     payload |-> [index |-> t, objects |-> objs]]

\* The snapshot interval fires: when a flush is due and the canvas is
\* there, the serialised canvas is posted to the parent and the counter
\* and the time of the last snapshot are reset.
snapshotCheck ==
    /\ snapshotInterval.running
    /\ clock = snapshotInterval.due
    /\ snapshotInterval' = [snapshotInterval EXCEPT !.due = clock + SnapshotCheckMs]
    /\ IF FlushDue(clock, lastSnapshotTs, mutationCounter) /\ canvas.exists
         THEN /\ eout' = EPosting(SnapshotMessage(clock, ToJSON(canvas.objects)))
              /\ mutationCounter' = 0
              /\ lastSnapshotTs' = clock
         ELSE /\ eout' = EQuiet
              /\ UNCHANGED <<mutationCounter, lastSnapshotTs>>
    /\ heard' = <<>>
    /\ UNCHANGED <<init, client, view, fabricLoaded, fabricPending, canvas,
                   widgets, history, cursor, historyMode, banner, objects,
                   clock, adds, orphans>>

\* The listeners initFabric registers on the canvas: the first definition
\* registers path:created (and puts the canvas in drawing mode), the
\* second registers none.
DrawingListeners == build = "first"

\* The user finishes a stroke on the canvas: fabric adds the path and fires
\* path:created; the handler calls addWhiteboardObject and suspends.
pathCreated ==
    /\ DrawingListeners
    /\ view = "inner"
    /\ canvas.exists /\ canvas.evented
    /\ canvas' = [canvas EXCEPT !.objects = Append(@, [shape |-> "Path", id |-> ""])]
    /\ adds' = adds + 1
    /\ eout' = EQuiet
    /\ heard' = <<>>
    /\ UNCHANGED <<init, client, view, fabricLoaded, fabricPending, widgets,
                   history, cursor, historyMode, banner, objects, clock,
                   lastSnapshotTs, mutationCounter, snapshotInterval, orphans>>

\* What the handler posts once addWhiteboardObject has resolved.
AfterAddPosts(t, objs) == EPosting(SnapshotMessage(t, objs))

\* await addWhiteboardObject(...) settles: when it resolved, the counter is
\* incremented and a snapshot of the canvas is posted to the parent (the
\* catch around the post is not reached: serialising the canvas and
\* posting plain data to "*" do not throw); a rejection is logged.
\* pushHistory() follows either way.
addSettles(ok) ==
    /\ adds > 0
    /\ adds' = adds - 1
    /\ IF ok
         THEN /\ mutationCounter' = mutationCounter + 1
              /\ eout' = AfterAddPosts(clock, ToJSON(canvas.objects))
         ELSE /\ eout' = EQuiet
              /\ UNCHANGED mutationCounter
    /\ history' = PushHistory(history, cursor, canvas).history
    /\ cursor' = PushHistory(history, cursor, canvas).cursor
    /\ heard' = <<>>
    /\ UNCHANGED <<init, client, view, fabricLoaded, fabricPending, canvas,
                   widgets, historyMode, banner, objects, clock,
                   lastSnapshotTs, snapshotInterval, orphans>>

\* Time passes in the embedded window, up to the next firing of the
\* snapshot interval when there is one.
timePasses ==
    /\ clock' = clock + (SnapshotCheckMs \div 2)
    /\ snapshotInterval.running => clock' <= snapshotInterval.due
    /\ eout' = EQuiet
    /\ heard' = <<>>
    /\ UNCHANGED <<init, client, view, fabricLoaded, fabricPending, canvas,
                   widgets, history, cursor, historyMode, banner, objects,
                   snapstate, orphans>>

\* undo(): if (!fabricCanvasRef.current || historyIndexRef.current <= 0) return;
UndoLoadsOld ==
    IF canvas.exists /\ cursor > 0
      THEN /\ cursor' = cursor - 1
           /\ canvas' = [canvas EXCEPT !.objects = LoadFromJSON(history[cursor + 1])]
      ELSE UNCHANGED <<cursor, canvas>>
UndoNoFloor ==
    IF canvas.exists
      THEN cursor' = cursor - 1 /\ UNCHANGED canvas
      ELSE UNCHANGED <<cursor, canvas>>
Undo ==
    IF canvas.exists /\ cursor > 0
      THEN /\ cursor' = cursor - 1
           /\ canvas' = [canvas EXCEPT !.objects = LoadFromJSON(history[cursor' + 1])]
      ELSE UNCHANGED <<cursor, canvas>>

\* redo(): if (!fabricCanvasRef.current || historyIndexRef.current >= h.length - 1) return;
RedoLoadsOld ==
    IF canvas.exists /\ cursor < Len(history) - 1
      THEN /\ cursor' = cursor + 1
           /\ canvas' = [canvas EXCEPT !.objects = LoadFromJSON(history[cursor + 1])]
      ELSE UNCHANGED <<cursor, canvas>>
RedoNoLoad ==
    IF canvas.exists /\ cursor < Len(history) - 1
      THEN cursor' = cursor + 1 /\ UNCHANGED canvas
      ELSE UNCHANGED <<cursor, canvas>>
Redo ==
    IF canvas.exists /\ cursor < Len(history) - 1
      THEN /\ cursor' = cursor + 1
           /\ canvas' = [canvas EXCEPT !.objects = LoadFromJSON(history[cursor' + 1])]
      ELSE UNCHANGED <<cursor, canvas>>

\* The "jump" branch of cmdListener: the second definition reaches it for
\* a message of type "jump"; the first returns before it for every message
\* whose type is not "command".
JumpReached(m) == m.type = "jump" /\ build = "second"

\* fc.evented = false; fc.selection = false; fc.loadFromJSON({ objects }, ...)
JumpCanvas(cv, objs) ==
    [cv EXCEPT !.evented = FALSE, !.selection = FALSE,
               !.objects = LoadFromJSON(objs)]

\* cmdListener(ev), the listener InnerWhiteboard registers.
cmdListener(m) ==
    /\ view = "inner"
    /\ heard' = Heard("inner", m)
    /\ IF ~EmbAccepts(m)
         THEN UNCHANGED <<canvas, cursor, historyMode, banner>>
       ELSE IF m.type = "command"
         THEN /\ CASE m.action = "undo" -> Undo
                   [] m.action = "redo" -> Redo
                   [] m.action = "setZoom" ->
                        /\ canvas' = IF canvas.exists
                                       THEN [canvas EXCEPT !.zoom = IF m.zoom = 0 THEN 1 ELSE m.zoom]
                                       ELSE canvas
                        /\ UNCHANGED cursor
                   [] OTHER -> UNCHANGED <<canvas, cursor>>
              /\ UNCHANGED <<historyMode, banner>>
       ELSE IF JumpReached(m) /\ m.hasObjects /\ canvas.exists
         THEN /\ historyMode' = TRUE
              /\ banner' = TRUE
              /\ canvas' = JumpCanvas(canvas, m.objects)
              /\ UNCHANGED cursor
       ELSE UNCHANGED <<canvas, cursor, historyMode, banner>>
    /\ eout' = EQuiet
    /\ UNCHANGED <<init, client, view, fabricLoaded, fabricPending, widgets,
                   history, objects, clock, snapstate, orphans>>

\* fc.evented = true; fc.selection = true;
LiveCanvasCleared(cv) ==
    [cv EXCEPT !.evented = TRUE, !.selection = TRUE, !.objects = <<>>]
LiveCanvas(cv) == [cv EXCEPT !.evented = TRUE, !.selection = TRUE]

\* onClick of the history banner.
bannerClick ==
    /\ banner
    /\ canvas' = IF canvas.exists THEN LiveCanvas(canvas) ELSE canvas
    /\ historyMode' = FALSE
    /\ banner' = FALSE
    /\ heard' = <<>>
    /\ eout' = EQuiet
    /\ UNCHANGED <<init, client, view, fabricLoaded, fabricPending, widgets,
                   history, cursor, objects, clock, snapstate, orphans>>

(***************************************************************************)
(* The older WhiteboardCanvas (part_002): a canvas with history, no backend *)
(***************************************************************************)

\* new fabric.Canvas(canvasEl, { selection: true, ... })
DrawingCanvas == [NewCanvas EXCEPT !.selection = TRUE]

\* The snapshot pushHistory posts after the push:
\* payload: { index: historyIndexRef.current, objects: h[historyIndexRef.current] }
PushedSnapshot(h, c) == EPosting(SnapshotMessage(c, h[c + 1]))

\* The effect that initialises the canvas, after the first render: the
\* canvas is created in drawing mode and the first state is pushed.
initCanvas ==
    /\ build = "part_002"
    /\ view = "connecting"
    /\ view' = "canvas"
    /\ canvas' = DrawingCanvas
    /\ history' = PushHistory(history, cursor, canvas').history
    /\ cursor' = PushHistory(history, cursor, canvas').cursor
    /\ eout' = PushedSnapshot(history', cursor')
    /\ heard' = <<>>
    /\ UNCHANGED <<init, client, fabricLoaded, fabricPending, widgets,
                   historyMode, banner, objects, clock, snapstate, orphans>>

\* record, the listener of path:created: the user has finished a stroke,
\* which fabric added to the canvas; pushHistory() follows.  (The same
\* listener is registered for object:modified, which pushes the canvas as
\* it is.)
record ==
    /\ build = "part_002"
    /\ view = "canvas"
    /\ canvas' = [canvas EXCEPT !.objects = Append(@, [shape |-> "Path", id |-> ""])]
    /\ history' = PushHistory(history, cursor, canvas').history
    /\ cursor' = PushHistory(history, cursor, canvas').cursor
    /\ eout' = PushedSnapshot(history', cursor')
    /\ heard' = <<>>
    /\ UNCHANGED <<init, client, view, fabricLoaded, fabricPending, widgets,
                   historyMode, banner, objects, clock, snapstate, orphans>>

\* handleMessage(ev) of the older component: undo, redo and setZoom
\* commands.
canvasHandleMessage(m) ==
    /\ build = "part_002"
    /\ view = "canvas"
    /\ heard' = Heard("canvas", m)
    /\ IF EmbAccepts(m) /\ m.type = "command"
         THEN CASE m.action = "undo" -> Undo
                [] m.action = "redo" -> Redo
                [] m.action = "setZoom" ->
                     /\ canvas' = [canvas EXCEPT !.zoom = IF m.zoom = 0 THEN 1 ELSE m.zoom]
                     /\ UNCHANGED cursor
                [] OTHER -> UNCHANGED <<canvas, cursor>>
         ELSE UNCHANGED <<canvas, cursor>>
    /\ eout' = EQuiet
    /\ UNCHANGED <<init, client, view, fabricLoaded, fabricPending, widgets,
                   history, historyMode, banner, objects, clock, snapstate,
                   orphans>>

(***************************************************************************)
(* useSandbox: the periodic init re-send                                   *)
(***************************************************************************)

\* Bound of the model: interval callbacks suspended at their import.
MaxTicks == 1

VARIABLES
    mounted,    \* the component using the hook is mounted
    timer,      \* the interval of the periodic effect and the values its
                \* callback closes over
    timerDeps,  \* the dependencies the periodic effect last ran with
    ticks       \* interval callbacks suspended at await import(...)

tvars == <<mounted, timer, timerDeps, ticks>>

NoTimer == [running |-> FALSE, sessionId |-> "", convexUrl |-> ""]

TimerInit ==
    /\ mounted = TRUE
    /\ timer = NoTimer
    /\ timerDeps = <<"", "", "">>
    /\ ticks = EmptyBag

\* [url, convexUrl, sessionId]
TimerDepsNow == <<url, convexUrl, sessionId>>

\* if(!url || !iframeRef.current || !convexUrl || !sessionId) return;
TimerGuard == url # Null /\ iframe /\ convexUrl # Undefined /\ sessionId # Undefined

\* The periodic effect, run after a render in which one of url, convexUrl
\* and sessionId changed: the cleanup of the previous run clears its
\* interval, then the guard decides whether a new interval is set.
periodicEffect ==
    /\ mounted
    /\ TimerDepsNow # timerDeps
    /\ timerDeps' = TimerDepsNow
    /\ timer' = IF TimerGuard
                  THEN [running |-> TRUE, sessionId |-> sessionId,
                        convexUrl |-> convexUrl]
                  ELSE NoTimer
    /\ out' = Quiet
    /\ UNCHANGED <<mounted, ticks>>
    /\ UNCHANGED <<sessionId, session, status, url, convexUrl, iframe, effDeps,
                   tasks, replies, snapPending, idleLaunches, rejectedNoRetry>>

\* The interval fires: the callback starts and suspends at the import.
timerTick ==
    /\ timer.running
    /\ BagCardinality(ticks) < MaxTicks
    /\ ticks' = ticks (+) One([sessionId |-> timer.sessionId,
                               convexUrl |-> timer.convexUrl])
    /\ out' = Quiet
    /\ UNCHANGED <<mounted, timer, timerDeps>>
    /\ UNCHANGED <<sessionId, session, status, url, convexUrl, iframe, effDeps,
                   tasks, replies, snapPending, idleLaunches, rejectedNoRetry>>

\* postMessage({ ns, v:1, type:"init", payload }, "*")
PeriodicInitMessage(t, tok) ==
    [ns |-> NS, v |-> 1, type |-> "init", sessionId |-> t.sessionId,
     convexUrl |-> t.convexUrl, token |-> tok, target |-> "*"]

TickValues == [sessionId : SessionIds, convexUrl : {ConvexUrl}]

\* The callback's import settles: the init message is posted when the
\* import resolved and the iframe's window is there; catch {} otherwise.
tickSettles(t, importOk, tok) ==
    /\ BagIn(t, ticks)
    /\ ticks' = ticks (-) One(t)
    /\ out' = IF importOk /\ iframe
                THEN Posting(PeriodicInitMessage(t, tok))
                ELSE Quiet
    /\ UNCHANGED <<mounted, timer, timerDeps>>
    /\ UNCHANGED <<sessionId, session, status, url, convexUrl, iframe, effDeps,
                   tasks, replies, snapPending, idleLaunches, rejectedNoRetry>>

\* The component unmounts: the cleanups run (clearInterval) and React
\* detaches the iframe ref.
unmount ==
    /\ mounted
    /\ mounted' = FALSE
    /\ timer' = NoTimer
    /\ iframe' = FALSE
    /\ out' = Quiet
    /\ UNCHANGED <<timerDeps, ticks>>
    /\ UNCHANGED <<sessionId, session, status, url, convexUrl, effDeps,
                   tasks, replies, snapPending, idleLaunches, rejectedNoRetry>>

(***************************************************************************)
(* Specifications                                                          *)
(***************************************************************************)

vars == <<hvars, hostvars, embvars, tvars, obs>>

BaseInit ==
    /\ HealthInit /\ HostInit /\ EmbInit /\ TimerInit
    /\ event = NoEvent /\ pushes = 0 /\ pair = NoPair
    /\ flushedAt = 0 /\ strokes = 0 /\ sinceSent = -1 /\ sent = {}

Init == BaseInit /\ build = "second"

HostStep == UNCHANGED <<hvars, embvars, tvars, obs>>

\* Message events other than snapshots.
HandshakeInbound == {m \in HostInbound : m.type # "snapshot"}

\* The lifecycle of useSandbox: the session query, the lifecycle effect,
\* its launch-and-probe sequences, retry() and the messages that reach
\* setStatus.  The snapshot branch of handleMessage, the backend URL and the
\* iframe element neither read nor write status, url or the sequences in
\* flight, and are left to SpecRouter.
InitLifecycle == Init /\ convexUrl = ConvexUrl

Next ==
    \/ setSessionId /\ HostStep
    \/ (\E s \in SessionValues : sessionUpdate(s)) /\ HostStep
    \/ lifecycleEffect /\ HostStep
    \/ launchResolves /\ HostStep
    \/ launchRejects /\ HostStep
    \/ (\E t \in ProbeTasks, healthy \in BOOLEAN : probeSettles(t, healthy)) /\ HostStep
    \/ retry /\ HostStep
    \/ (\E m \in HandshakeInbound : handleMessage(m)) /\ HostStep
    \/ (\E r \in ReplyValues, importOk \in BOOLEAN, tok \in AuthTokens :
           readyReplySettles(r, importOk, tok)) /\ HostStep

Spec == InitLifecycle /\ [][Next]_vars

\* The message handling of useSandbox, in every combination of session id,
\* backend URL, iframe element and sandbox URL; the sandbox URL comes from a
\* reattach or a launch whose probe succeeds.
InitRouter == Init

NextRouter ==
    \/ setSessionId /\ HostStep
    \/ (\E s \in {SessionRecord(u) : u \in SessionUrls \cup {""}} : sessionUpdate(s)) /\ HostStep
    \/ lifecycleEffect /\ HostStep
    \/ launchResolves /\ HostStep
    \/ (\E t \in ProbeTasks : probeSettles(t, TRUE)) /\ HostStep
    \/ convexUrlLoaded /\ HostStep
    \/ iframeToggle /\ HostStep
    \/ (\E m \in HostInbound : handleMessage(m)) /\ HostStep
    \/ (\E r \in ReplyValues, importOk \in BOOLEAN, tok \in AuthTokens :
           readyReplySettles(r, importOk, tok)) /\ HostStep
    \/ (\E ok \in BOOLEAN : insertSnapshotSettles(ok)) /\ HostStep

SpecRouter == InitRouter /\ [][NextRouter]_vars

\* The three message listeners side by side: the host's handleMessage, with
\* a sandbox reattached and probed, and the embedded view's handleMessage
\* and cmdListener.  The view runs in the iframe, whose address is the
\* sandbox URL, and so exists once the URL is known.
InitFrames == Init /\ sessionId \in SessionIds /\ convexUrl = ConvexUrl

embstate == <<init, client, view, fabricLoaded, fabricPending, canvas, widgets,
              history, cursor, historyMode, banner, objects, snapstate, orphans>>
hoststate == <<sessionId, session, status, url, convexUrl, iframe, effDeps,
               tasks, replies, snapPending, idleLaunches, rejectedNoRetry>>

\* A step of the host that is not a message event, a message event of the
\* host, and a step of the embedded view.
HostQuiet ==
    heard' = <<>> /\ eout' = EQuiet /\ UNCHANGED <<hvars, embstate, clock, tvars, obs>>
HostHears(m) ==
    /\ heard' = Heard("host", m) /\ eout' = EQuiet
    /\ UNCHANGED <<hvars, embstate, clock, tvars, obs>>
EmbStep == url # Null /\ out' = Quiet /\ UNCHANGED <<hvars, hoststate, tvars, obs>>

NextFrames ==
    \/ sessionUpdate(SessionRecord(UrlA)) /\ HostQuiet
    \/ lifecycleEffect /\ HostQuiet
    \/ (\E t \in ProbeTasks : probeSettles(t, TRUE)) /\ HostQuiet
    \/ (\E m \in HostInbound : handleMessage(m) /\ HostHears(m))
    \/ (\E r \in ReplyValues, tok \in AuthTokens :
           readyReplySettles(r, TRUE, tok)) /\ HostQuiet
    \/ insertSnapshotSettles(TRUE) /\ HostQuiet
    \/ (\E m \in EmbInbound : viewHandleMessage(m)) /\ EmbStep
    \/ fabricImported /\ EmbStep
    \/ (\E l \in BackendLists :
          Len(history) < MaxHistory /\ ListChanges(l) /\ objectsDelivered(l)) /\ EmbStep
    \/ (\E m \in EmbInbound : cmdListener(m)) /\ EmbStep
    \/ bannerClick /\ EmbStep

SpecFrames == InitFrames /\ [][NextFrames]_vars

\* The periodic init re-send of useSandbox: the hook's values come and go
\* (session id, backend URL, iframe element, a sandbox URL from a reattach
\* whose probe succeeds), the periodic effect follows them, the interval
\* fires, and the component may unmount.
TimerStep == UNCHANGED <<hvars, embvars, obs>>

NextTimer ==
    \/ mounted /\ setSessionId /\ HostStep
    \/ mounted /\ sessionUpdate(SessionRecord(UrlA)) /\ HostStep
    \/ mounted /\ lifecycleEffect /\ HostStep
    \/ (\E t \in ProbeTasks : mounted /\ probeSettles(t, TRUE)) /\ HostStep
    \/ mounted /\ convexUrlLoaded /\ HostStep
    \/ mounted /\ iframeToggle /\ HostStep
    \/ periodicEffect /\ TimerStep
    \/ timerTick /\ TimerStep
    \/ (\E t \in TickValues, importOk \in BOOLEAN, tok \in AuthTokens :
           tickSettles(t, importOk, tok)) /\ TimerStep
    \/ unmount /\ TimerStep

SpecTimer == Init /\ [][NextTimer]_vars

\* The embedded view on its own: the page in the iframe, its two message
\* listeners, the fabric import, the objects query and the history banner.
InitView ==
    BaseInit /\ build \in Builds /\ sessionId \in SessionIds /\ convexUrl = ConvexUrl

ViewStep == UNCHANGED <<hvars, hostvars, tvars, build, pushes, pair, snapobs>>

NextView ==
    \/ (\E m \in EmbInbound : viewHandleMessage(m) /\ event' = m) /\ ViewStep
    \/ fabricImported /\ event' = NoEvent /\ ViewStep
    \/ (\E l \in BackendLists :
          Len(history) < MaxHistory /\ ListChanges(l) /\ objectsDelivered(l))
          /\ event' = NoEvent /\ ViewStep
    \/ (\E m \in EmbInbound : cmdListener(m) /\ event' = m) /\ ViewStep
    \/ bannerClick /\ event' = NoEvent /\ ViewStep

SpecView == InitView /\ [][NextView]_vars

\* The backend client of the embedded view: the host's init messages keep
\* arriving, for the same session, with one backend URL or another, with
\* one token, another or none, or without a backend URL.
ConvexUrlB == "https://db-b.example.convex.cloud"

ClientInbound ==
    { EmbMessage(TRUE, NS, "init", sid, cu, tok, "", 0, FALSE, <<>>) :
        sid \in SessionIds, cu \in {ConvexUrl, ConvexUrlB, ""},
        tok \in {"tok-1", "tok-2", ""} }

NextClient ==
    \/ (\E m \in ClientInbound : viewHandleMessage(m) /\ event' = m) /\ ViewStep
    \/ fabricImported /\ event' = NoEvent /\ ViewStep
    \/ (\E l \in BackendLists :
          Len(history) < MaxHistory /\ ListChanges(l) /\ objectsDelivered(l))
          /\ event' = NoEvent /\ ViewStep

SpecClient == InitView /\ [][NextClient]_vars

\* The sync engine of the embedded view: the objects query delivers lists,
\* the same one again or another, with drawn kinds, kinds the loop does not
\* know and widgets; the widgets' roots render, and some throw; the host
\* sends undo, redo and jump in between.
MaxSyncHistory == 4  \* history length up to which SpecSync syncs
MaxOrphans == 1      \* roots still to render whose host element is gone

SyncLists ==
    { <<ObjStar, ObjInk>>, <<ObjWidget, ObjStar, ObjRect>>, <<ObjLine, ObjWidget>> }

SyncInbound ==
    { EmbMessage(TRUE, NS, "init", "s1", ConvexUrl, "tok-1", "", 0, FALSE, <<>>),
      EmbMessage(TRUE, NS, "command", "", "", "", "undo", 0, FALSE, <<>>),
      EmbMessage(TRUE, NS, "command", "", "", "", "redo", 0, FALSE, <<>>),
      EmbMessage(TRUE, NS, "jump", "", "", "", "", 0, TRUE, <<[shape |-> "Rect"]>>) }

NextSync ==
    \/ (\E m \in SyncInbound : viewHandleMessage(m) /\ event' = m) /\ ViewStep
    \/ fabricImported /\ event' = NoEvent /\ ViewStep
    \/ (\E l \in SyncLists :
          /\ Len(history) < MaxSyncHistory
          /\ orphans + PendingRoots(widgets) <= MaxOrphans
          /\ objectsDelivered(l))
          /\ event' = NoEvent /\ ViewStep
    \/ (\E m \in SyncInbound : cmdListener(m) /\ event' = m) /\ ViewStep
    \/ (\E i \in 1..Len(widgets), e \in Errors \cup {NoError} : widgetRenders(i, e))
          /\ event' = NoEvent /\ ViewStep
    \/ (\E e \in Errors \cup {NoError} : orphanRenders(e))
          /\ event' = NoEvent /\ ViewStep

SpecSync == InitView /\ [][NextSync]_vars

\* The sync engine under fair scheduling: an import("fabric") that is
\* pending resolves, and a widget root that is still to render renders;
\* the backend delivers a list when it has one, and the host sends what it
\* sends, when it does.
fabricImportResolves == fabricImported /\ event' = NoEvent /\ ViewStep

SpecSyncLive == SpecSync /\ WF_vars(fabricImportResolves)

\* The life of InnerWhiteboard: init messages mount it and move it from
\* one session to the other, which runs the fabric effect again; the
\* fabric import resolves, before or after the view is unmounted; the
\* objects query delivers lists; the snapshot interval fires.
MaxPending == 2           \* initFabric calls suspended at the import
MaxTeardownHistory == 3   \* history length up to which the effect re-runs
MaxTeardownClock == 5000  \* the time, in ms, up to which SpecTeardown runs

TeardownInbound ==
    { EmbMessage(TRUE, NS, "init", sid, ConvexUrl, "tok-1", "", 0, FALSE, <<>>) :
        sid \in {"s1", "s2"} }

NextTeardown ==
    \/ (\E m \in TeardownInbound :
          /\ fabricPending < MaxPending
          /\ Len(history) < MaxTeardownHistory
          /\ viewHandleMessage(m)
          /\ event' = m) /\ ViewStep
    \/ fabricImported /\ event' = NoEvent /\ ViewStep
    \/ innerUnmounts /\ event' = NoEvent /\ ViewStep
    \/ (\E o \in {"throws", "creates"} : fabricImportedGone(o))
          /\ event' = NoEvent /\ ViewStep
    \/ (\E l \in BackendLists :
          /\ Len(history) < MaxTeardownHistory
          /\ ListChanges(l)
          /\ objectsDelivered(l)) /\ event' = NoEvent /\ ViewStep
    \/ (clock < MaxTeardownClock /\ timePasses) /\ event' = NoEvent /\ ViewStep
    \/ snapshotCheck /\ event' = NoEvent /\ ViewStep

SpecTeardown == InitView /\ [][NextTeardown]_vars

\* The reconciliation on its own: the objects query delivers lists of one
\* or two objects of the kinds the whiteboard stores: ink, a line of two
\* points, a text, and an arrow as window.whiteboard.addShape stores it,
\* with its end points x1, y1, x2, y2 and no points array.
MaxReconcileHistory == 3  \* history length up to which SpecReconcile syncs

ObjText == [id |-> "t1", kind |-> "text", points |-> 0, entry |-> ""]
ObjArrow == [id |-> "a1", kind |-> "arrow", points |-> 0, entry |-> ""]

ReconcileLists ==
    LET objs == {ObjInk, ObjLine, ObjText, ObjArrow}
    IN { <<o>> : o \in objs }
       \cup { l \in { <<o, p>> : o \in objs, p \in objs } : l[1] # l[2] }

NextReconcile ==
    \/ (\E m \in {EmbMessage(TRUE, NS, "init", "s1", ConvexUrl, "tok-1", "", 0, FALSE, <<>>)} :
          viewHandleMessage(m) /\ event' = m) /\ ViewStep
    \/ fabricImported /\ event' = NoEvent /\ ViewStep
    \/ (\E l \in ReconcileLists :
          /\ Len(history) < MaxReconcileHistory
          /\ ListChanges(l)
          /\ objectsDelivered(l)) /\ event' = NoEvent /\ ViewStep

SpecReconcile == InitView /\ [][NextReconcile]_vars

\* The snapshots of the embedded view: one init message after another
\* mounts the whiteboard, at one time or another; the fabric import
\* resolves and the snapshot interval is set; time passes, the interval
\* fires every 5 s; under the first definition the user draws strokes,
\* which the backend stores or refuses.
MaxClock == 65000  \* the time, in ms, up to which the clock runs
MaxDrawn == 21     \* strokes on the canvas
MaxAdds == 1       \* path:created handlers suspended at their await

SnapshotInbound ==
    { EmbMessage(TRUE, NS, "init", "s1", ConvexUrl, "tok-1", "", 0, FALSE, <<>>) }

SnapStep == UNCHANGED <<hvars, hostvars, tvars, event, build, pushes, pair>>

\* The snapshot message the step posted, if it posted one.
PostedSnapshot(o) == o.posted # <<>> /\ o.posted[1].type = "snapshot"

NextSnapshot ==
    \/ (\E m \in SnapshotInbound :
          /\ viewHandleMessage(m)
          /\ flushedAt' = IF view = "connecting" /\ view' = "inner"
                            THEN clock ELSE flushedAt
          /\ UNCHANGED <<strokes, sinceSent, sent>>) /\ SnapStep
    \/ fabricImported /\ UNCHANGED snapobs /\ SnapStep
    \/ (/\ clock < MaxClock
        /\ view = "inner"
        /\ canvas.exists \/ clock = 0
        /\ timePasses
        /\ sinceSent' = IF sinceSent < 0 THEN sinceSent
                        ELSE IF sinceSent + (clock' - clock) >= SnapshotCheckMs
                          THEN SnapshotCheckMs
                        ELSE sinceSent + (clock' - clock)
        /\ UNCHANGED <<flushedAt, strokes, sent>>) /\ SnapStep
    \/ (/\ snapshotCheck
        /\ flushedAt' = IF PostedSnapshot(eout') THEN clock ELSE flushedAt
        /\ strokes' = IF PostedSnapshot(eout') THEN 0 ELSE strokes
        /\ sinceSent' = IF PostedSnapshot(eout') THEN 0 ELSE sinceSent
        /\ UNCHANGED sent) /\ SnapStep
    \/ (/\ Len(canvas.objects) < MaxDrawn
        /\ adds < MaxAdds
        /\ pathCreated
        /\ UNCHANGED snapobs) /\ SnapStep
    \/ (\E ok \in BOOLEAN :
          /\ addSettles(ok)
          /\ strokes' = IF ok THEN strokes + 1 ELSE strokes
          /\ sinceSent' = IF PostedSnapshot(eout') THEN 0 ELSE sinceSent
          /\ UNCHANGED <<flushedAt, sent>>) /\ SnapStep

SpecSnapshot == InitView /\ [][NextSnapshot]_vars

\* The handshake seen from the embedded view: the host sends one usable
\* init message and no second one; messages of other kinds and from other
\* windows arrive as they may; time passes.  What the view does on its own
\* after a message (the render, the client effect) is part of the
\* handler's step, so that nothing but the passing of time is left to
\* schedule.
FirstUsableInit(m) ==
    (EmbAccepts(m) /\ m.type = "init" /\ InitUsable(m)) => ~init.set

timeGoesBy == clock < MaxClock /\ timePasses /\ event' = NoEvent /\ ViewStep

NextSingleInit ==
    \/ (\E m \in EmbInbound :
          FirstUsableInit(m) /\ viewHandleMessage(m) /\ event' = m) /\ ViewStep
    \/ timeGoesBy

SpecSingleInit == InitView /\ [][NextSingleInit]_vars /\ WF_vars(timeGoesBy)

\* The older component on its own: the canvas is created, the user draws
\* strokes, each of which pushes to the history and posts a snapshot, past
\* the capacity of the history; the host sends undo, redo and setZoom
\* while the history is short.
MaxStrokes == 51       \* strokes the user draws
MaxCommandLength == 3  \* history length up to which commands arrive

InitPushSnapshot ==
    BaseInit /\ build = "part_002" /\ sessionId \in SessionIds /\ convexUrl = ConvexUrl

PushStep ==
    /\ sent' = IF PostedSnapshot(eout')
                 THEN sent \cup {eout'.posted[1].payload.index} ELSE sent
    /\ event' = NoEvent
    /\ UNCHANGED <<hvars, hostvars, tvars, build, pushes, pair,
                   flushedAt, strokes, sinceSent>>

NextPushSnapshot ==
    \/ initCanvas /\ PushStep
    \/ (Len(canvas.objects) < MaxStrokes /\ record) /\ PushStep
    \/ (\E m \in EmbInbound :
          Len(history) <= MaxCommandLength /\ canvasHandleMessage(m)) /\ PushStep

SpecPushSnapshot == InitPushSnapshot /\ [][NextPushSnapshot]_vars

\* The history of the embedded view: one init message mounts the
\* whiteboard, the objects query keeps delivering lists, each of which the
\* sync effect pushes to the history, and the host sends undo, redo and
\* jump.
InitHistory ==
    BaseInit /\ build = "second" /\ sessionId \in SessionIds /\ convexUrl = ConvexUrl

HistoryInbound ==
    { EmbMessage(TRUE, NS, "init", "s1", ConvexUrl, "tok-1", "", 0, FALSE, <<>>),
      EmbMessage(TRUE, NS, "command", "", "", "", "undo", 0, FALSE, <<>>),
      EmbMessage(TRUE, NS, "command", "", "", "", "redo", 0, FALSE, <<>>),
      EmbMessage(TRUE, NS, "jump", "", "", "", "", 0, TRUE, <<[shape |-> "Rect"]>>) }

HistoryStep == UNCHANGED <<hvars, hostvars, tvars, event, build, snapobs>>

\* The observation of a command: an undo records the cursor and the
\* serialised canvas it found; the redo right after it keeps the record.
PairAfter(m) ==
    IF m.type = "command" /\ m.action = "undo"
      THEN [phase |-> "undone", cursor |-> cursor, shown |-> ToJSON(canvas.objects)]
    ELSE IF m.type = "command" /\ m.action = "redo" /\ pair.phase = "undone"
      THEN [pair EXCEPT !.phase = "redone"]
    ELSE NoPair

NextHistory ==
    \/ (\E m \in HistoryInbound :
          /\ viewHandleMessage(m)
          /\ pushes' = IF canvas' # canvas THEN pushes + 1 ELSE pushes
          /\ pair' = NoPair) /\ HistoryStep
    \/ fabricImported /\ pushes' = pushes + 1 /\ pair' = NoPair /\ HistoryStep
    \/ (\E l \in BackendLists :
          /\ pushes < MaxPushes
          /\ ListChanges(l)
          /\ objectsDelivered(l)
          /\ pushes' = IF canvas.exists THEN pushes + 1 ELSE pushes
          /\ pair' = IF pair.phase = "undone" /\ canvas.exists
                        THEN [pair EXCEPT !.phase = "pushed"]
                        ELSE NoPair) /\ HistoryStep
    \/ (\E m \in HistoryInbound :
          /\ cmdListener(m)
          /\ pushes' = pushes
          /\ pair' = PairAfter(m)) /\ HistoryStep

SpecHistory == InitHistory /\ [][NextHistory]_vars

HealthStep == HealthNext /\ UNCHANGED <<hostvars, embvars, tvars, obs>>

InitHealth == Init /\ sessionId = Undefined /\ convexUrl = ConvexUrl

SpecHealth == InitHealth /\ [][HealthStep]_vars

(***************************************************************************)
(* Properties of waitForHealth (SpecHealth)                                *)
(***************************************************************************)

\* C1, as stated: against an endpoint that never reports readiness,
\* waitForHealth returns false no later than the deadline plus one request
\* timeout (t0 + 90 s + 4 s).
C1_FalseWithinDeadlinePlusTimeout ==
    result = "false" => now <= deadline + RequestTimeoutMs

\* C1, amended: waitForHealth returns false before the deadline plus one
\* request timeout, plus the time the last poll spent reading its response
\* body (read after clearTimeout, so the 4 s abort does not bound it), plus
\* the 1 s sleep that follows the last poll.
C1_FalseWithinDeadlineTimeoutBodySleep ==
    result = "false" =>
        /\ readyPolls = 0
        /\ now < deadline + RequestTimeoutMs + bodyMs + PollSleepMs

\* A never-ready endpoint made the call return false later than the
\* deadline plus one request timeout, with no time spent on a body.
C1_Witness ==
    /\ result = "false"
    /\ readyPolls = 0
    /\ bodyMs = 0
    /\ now > deadline + RequestTimeoutMs

\* C2: waitForHealth returns true at the first poll whose response is 2xx
\* with a body whose ok is true, and at no other poll; that poll is followed
\* by no further request and no sleep.
C2_TrueAtFirstReadyPoll ==
    /\ [](result = "true" <=> readyPolls = 1)
    /\ [](readyPolls <= 1)
    /\ [][readyPolls' # readyPolls =>
            /\ result' = "true" /\ hpc' = "done"
            /\ polls' = polls /\ sleeps' = sleeps]_vars
    /\ [][result # "none" => UNCHANGED <<result, polls, sleeps, hpc>>]_vars

\* The call returned true at a ready poll that followed polls that failed.
C2_Witness ==
    /\ result = "true"
    /\ readyPolls = 1
    /\ polls > 2
    /\ sleeps = polls - 1

\* C3: waitForHealth never throws and returns false only once the deadline
\* has passed: a poll that ends with a network error, an abort, a non-2xx
\* response or a body that is unparsable or not ready leads to the 1 s sleep
\* and from there to the loop test.
C3_FailuresOnlyDelay ==
    /\ [](result # "thrown")
    /\ [](result = "false" => now >= deadline)
    /\ [][(hpc \in {"fetch", "body"} /\ readyPolls' = readyPolls /\ hpc' # "body")
            => (hpc' = "sleep" /\ result' = "none" /\ sleeps' = sleeps + 1)]_vars
    /\ [][hpc = "sleep" => (hpc' = "check" /\ now' = now + PollSleepMs)]_vars
    /\ [][(hpc = "check" /\ now < deadline) => (hpc' = "fetch" /\ result' = "none")]_vars

\* A poll failed before the deadline and the loop is about to poll again.
C3_Witness ==
    /\ hpc = "fetch"
    /\ polls > 3
    /\ sleeps = polls - 1
    /\ now < deadline
    /\ result = "none"

(***************************************************************************)
(* Properties of the useSandbox lifecycle (Spec)                           *)
(***************************************************************************)

\* C4: at most one launch-and-probe sequence (a launchSandbox call or a
\* waitForHealth loop) is in flight at any time.
C4_AtMostOneSequenceInFlight == InFlight <= 1

\* C5: on the fresh-launch path, when the health probe of the launched URL
\* returns failure, status moves from starting to error.
C5_LaunchProbeFailureSetsError ==
    [][\A t \in ProbeTasks :
          (t.path = "launch" /\ status = "starting" /\ probeSettles(t, FALSE))
             => status' = "error"]_vars

\* C6: status leaves error only through retry(), which sets it to idle.
C6_ErrorLeftOnlyByRetry ==
    [][(status = "error" /\ status' # "error") => (retry /\ status' = "idle")]_vars

LaunchCalled(o) == o.called # <<>> /\ o.called[1].op = "launchSandbox"

\* C7: in an idle period launchSandbox is called at most once; the effect
\* run with status idle and a session record without sandbox URL calls it
\* and sets status to starting; the resolution of the launch leaves status
\* and url alone; and the healthy probe of the launched URL sets status to
\* ready and url to the launched URL.
C7_LaunchOncePerIdlePeriod ==
    /\ [](idleLaunches <= 1)
    /\ [][LaunchCalled(out') => (status = "idle" /\ idleLaunches = 0)]_vars
    /\ [][(sessionId # Undefined /\ session = SessionRecord("") /\ status = "idle"
           /\ lifecycleEffect)
            => /\ status' = "starting"
               /\ out'.called = <<[op |-> "launchSandbox", sessionId |-> sessionId]>>
               /\ tasks' = tasks (+) One(LaunchTask)]_vars
    /\ [][launchResolves => UNCHANGED <<status, url>>]_vars
    /\ [][\A t \in ProbeTasks : (t.path = "launch" /\ probeSettles(t, TRUE))
            => (status' = "ready" /\ url' = t.url)]_vars

\* The launch path ran to its end: one launch in the idle period, status
\* ready, url the launched URL.
C7_Witness ==
    /\ status = "ready"
    /\ url \in LaunchUrls
    /\ idleLaunches = 1
    /\ session = SessionRecord("")
    /\ tasks = EmptyBag

\* C8: when launchSandbox rejects, status becomes error and url is left
\* unchanged, and launchSandbox is not called again before retry() is.
C8_LaunchRejectionIsFinal ==
    /\ [][launchRejects => (status' = "error" /\ url' = url)]_vars
    /\ [][(rejectedNoRetry /\ rejectedNoRetry') => ~LaunchCalled(out')]_vars
    /\ [](rejectedNoRetry => status # "idle")

\* A launch was rejected, after an earlier attach had set url.
C8_Witness ==
    /\ rejectedNoRetry
    /\ status = "error"
    /\ url # Null
    /\ session = SessionRecord("")

(***************************************************************************)
(* Properties of the message listeners                                     *)
(***************************************************************************)

\* C9: a message event without data, or whose ns is not "ai-tutor/wb",
\* changes no state of the host hook and none of the embedded view, and
\* causes no posted message and no backend call, whichever of the three
\* listeners it runs: the host's handleMessage, the view's handleMessage or
\* the view's cmdListener.
C9_ForeignMessagesChangeNothing ==
    [][(heard' # <<>> /\ heard'[2] = "foreign")
         => (UNCHANGED <<hoststate, embstate>> /\ out' = Quiet)]_vars

\* cmdListener has just run for a foreign message while there was a canvas
\* with an undoable history and a sandbox that the host knew to be ready.
C9_Witness ==
    /\ heard = <<"inner", "foreign">>
    /\ canvas.exists
    /\ cursor > 0
    /\ url # Null
    /\ status = "ready"

\* C10 as stated: every "ready" message received while the sandbox URL is
\* known is answered by exactly one init message carrying the session id
\* and the backend URL, posted to the origin of the sandbox URL.
C10_EveryReadyAnsweredByInit ==
    [][\A r \in ReplyValues :
          (BagIn(r, replies) /\ replies' = replies (-) One(r))
          => /\ Len(out'.posted) = 1
             /\ out'.posted[1].type = "init"
             /\ out'.posted[1].sessionId \in SessionIds
             /\ out'.posted[1].convexUrl = ConvexUrl
             /\ out'.posted[1].target = Origin(r.url)]_vars

\* C10, amended: a "ready" message received while the sandbox URL is known
\* posts nothing by itself and leaves one reply pending; when the reply
\* settles, exactly one init message is posted if the token module was
\* imported and the iframe has a window, and none otherwise; the message
\* carries the session id and the backend URL the hook held when the
\* "ready" message arrived, either of which may be undefined, and the token,
\* and its target is the origin of the sandbox URL; status becomes ready in
\* both cases.
C10_ReadyAnsweredWhenPossible ==
    /\ [][\A m \in HostInbound :
            (m.data /\ m.ns = NS /\ m.type = "ready" /\ url # Null /\ handleMessage(m))
            => /\ out' = Quiet
               /\ replies' = replies (+) One([url |-> url, sessionId |-> sessionId,
                                              convexUrl |-> convexUrl])]_vars
    /\ [][\A r \in ReplyValues, importOk \in BOOLEAN, tok \in AuthTokens :
            readyReplySettles(r, importOk, tok)
            => /\ status' = "ready"
               /\ out'.called = <<>>
               /\ out'.posted =
                    IF importOk /\ iframe
                      THEN <<[ns |-> NS, v |-> 1, type |-> "init",
                              sessionId |-> r.sessionId, convexUrl |-> r.convexUrl,
                              token |-> tok, target |-> Origin(r.url)]>>
                      ELSE <<>>]_vars

\* An init message was just posted with a session id, the backend URL and
\* a token, to the origin of the sandbox URL.
C10_Witness ==
    /\ Len(out.posted) = 1
    /\ out.posted[1].type = "init"
    /\ out.posted[1].sessionId \in SessionIds
    /\ out.posted[1].convexUrl = ConvexUrl
    /\ out.posted[1].token = "tok-1"
    /\ out.posted[1].target = Origin(url)
    /\ status = "ready"

\* C12: a namespaced "snapshot" message received while the sandbox URL and
\* the session id are known makes exactly one insertSnapshot call, with
\* that session id, the payload's index (0 when it has none) and the JSON
\* text of the payload's objects (of the empty list when it has none), and
\* posts nothing; a call that fails is only logged: no call follows it, and
\* status and url stay as they are.
C12_SnapshotStoredOnce ==
    /\ [][\A m \in HostInbound :
            (m.data /\ m.ns = NS /\ m.type = "snapshot" /\ url # Null
               /\ sessionId # Undefined /\ handleMessage(m))
            => /\ out'.posted = <<>>
               /\ Len(out'.called) = 1
               /\ out'.called[1].op = "insertSnapshot"
               /\ out'.called[1].sessionId = sessionId
               /\ out'.called[1].snapshotIndex =
                    (IF m.payload.hasIndex THEN m.payload.index ELSE 0)
               /\ out'.called[1].actionsJson =
                    (IF m.payload.hasObjects THEN Stringify(m.payload.objects)
                     ELSE <<"[", "]">>)
               /\ snapPending' = snapPending + 1
               /\ UNCHANGED <<status, url>>]_vars
    /\ [][insertSnapshotSettles(FALSE)
            => (out' = Quiet /\ snapPending' = snapPending - 1
                /\ UNCHANGED <<status, url, replies, tasks>>)]_vars

\* A snapshot with index 3 and two objects was just handed to
\* insertSnapshot for session s1, the sandbox being ready.
C12_Witness ==
    /\ out.called = <<[op |-> "insertSnapshot", sessionId |-> "s1",
                       snapshotIndex |-> 3,
                       actionsJson |-> <<"[", "a", ",", "b", "]">>]>>
    /\ snapPending = 1
    /\ status = "ready"
    /\ url # Null

(***************************************************************************)
(* Properties of the periodic init re-send (SpecTimer)                     *)
(***************************************************************************)

PeriodicInitPosted(o) == o.posted # <<>> /\ o.posted[1].target = "*"

\* C11: once the periodic effect has run for the current values, its
\* interval is running only if the hook is mounted and the sandbox URL, the
\* backend URL and the session id are all known; and a periodic init is
\* posted only while the interval is running: none after it was cleared.
C11_TimerOnlyWhileAllKnown ==
    /\ []((timer.running /\ timerDeps = TimerDepsNow)
            => (mounted /\ url # Null /\ convexUrl # Undefined
                /\ sessionId # Undefined))
    /\ [](~mounted => ~timer.running)
    /\ [][PeriodicInitPosted(out') => timer.running]_vars

(***************************************************************************)
(* Properties of the embedded view (SpecView)                              *)
(***************************************************************************)

\* C13: an "init" message with a session id and without a backend URL is
\* dropped by the view's handleMessage: the captured init, the backend
\* client, the history and the cursor stay as they are, and so do the view
\* shown and the canvas.
C13_InitWithoutUrlDropped ==
    [][(heard' # <<>> /\ heard'[1] = "view" /\ event'.data /\ event'.ns = NS
          /\ event'.type = "init" /\ event'.sessionId # ""
          /\ event'.convexUrl = "")
         => UNCHANGED <<init, client, history, cursor, view, canvas,
                        fabricPending>>]_vars

\* The view's handleMessage has just run for such a message, after an
\* earlier init had been captured and the canvas had its first history
\* entry.
C13_Witness ==
    /\ heard # <<>> /\ heard[1] = "view"
    /\ event.data /\ event.ns = NS /\ event.type = "init"
    /\ event.sessionId # "" /\ event.convexUrl = ""
    /\ init.set /\ init.convexUrl = ConvexUrl
    /\ client.built
    /\ Len(history) > 0

\* C14: when the view has captured an init payload, the delivery of an
\* "init" message with the same payload leaves the session id in use, the
\* backend client, the canvas, the history and the cursor as they are, and
\* starts no canvas initialisation.
C14_RepeatedInitChangesNothing ==
    [][(heard' # <<>> /\ heard'[1] = "view" /\ event'.data /\ event'.ns = NS
          /\ event'.type = "init" /\ init.set
          /\ event'.sessionId = init.sessionId
          /\ event'.convexUrl = init.convexUrl
          /\ event'.token = init.token)
         => UNCHANGED <<SessionInUse, client, canvas, history, cursor,
                        fabricPending>>]_vars

\* C15: when cmdListener runs for a namespaced "jump" message that carries
\* an objects list while the canvas exists, the view enters history mode:
\* the canvas stops taking events and selections, shows the given objects,
\* and the banner is shown; a "jump" without objects changes nothing.
C15_JumpEntersHistoryMode ==
    /\ [][(heard' # <<>> /\ heard'[1] = "inner" /\ event'.data
             /\ event'.ns = NS /\ event'.type = "jump" /\ event'.hasObjects
             /\ canvas.exists)
            => /\ historyMode' /\ banner'
               /\ ~canvas'.evented /\ ~canvas'.selection
               /\ Len(canvas'.objects) = Len(event'.objects)
               /\ \A i \in 1..Len(event'.objects) :
                     canvas'.objects[i].shape = event'.objects[i].shape]_vars
    /\ [][(heard' # <<>> /\ heard'[1] = "inner" /\ event'.data
             /\ event'.ns = NS /\ event'.type = "jump" /\ ~event'.hasObjects)
            => UNCHANGED embstate]_vars

\* C16: a click on the history banner makes the canvas take events and
\* selections again and hides the banner, and leaves the canvas contents
\* and zoom, the history, the cursor and everything else of the view but
\* the history-mode flag as they were; the banner is shown only over an
\* existing canvas.
C16_BannerClickLeavesHistoryMode ==
    /\ [](banner => canvas.exists)
    /\ [][bannerClick
            => /\ canvas'.evented /\ canvas'.selection
               /\ ~banner' /\ ~historyMode'
               /\ canvas'.objects = canvas.objects
               /\ canvas'.zoom = canvas.zoom
               /\ canvas'.exists = canvas.exists
               /\ UNCHANGED <<history, cursor, init, client, view, objects,
                              widgets, fabricLoaded, fabricPending>>]_vars

\* The banner was clicked away after a jump: the canvas is interactive
\* again and still shows the objects of the jump, over a history of two
\* entries.
C16_Witness ==
    /\ ~banner /\ ~historyMode
    /\ canvas.exists /\ canvas.evented /\ canvas.selection
    /\ Len(canvas.objects) = 1 /\ canvas.objects[1].shape = "Rect"
    /\ canvas.objects[1].id = ""
    /\ Len(history) = 2
    /\ cursor = 1

(***************************************************************************)
(* Properties of the history (SpecHistory)                                 *)
(***************************************************************************)

\* C17: after N pushHistory calls on the canvas the history has
\* min(N, 50) entries; a push below capacity appends to the entries there
\* are, and a push at capacity drops the oldest entry, keeps the others in
\* their order and appends.
C17_HistoryLengthAndFifo ==
    /\ [](Len(history) = IF pushes <= HistoryCap THEN pushes ELSE HistoryCap)
    /\ [][pushes' = pushes + 1 =>
            IF Len(history) < HistoryCap
              THEN /\ Len(history') = Len(history) + 1
                   /\ SubSeq(history', 1, Len(history)) = history
              ELSE /\ Len(history') = HistoryCap
                   /\ SubSeq(history', 1, HistoryCap - 1) = Tail(history)]_vars

\* Two pushes were made at capacity.
C17_Witness ==
    /\ pushes = HistoryCap + 2
    /\ Len(history) = HistoryCap
    /\ history[1] # history[2]

\* C18: the cursor is -1 while the history is empty, and an index of the
\* history (0 <= cursor < length) once it is not, whatever pushes, undos,
\* redos and jumps were made.
C18_CursorWithinHistory ==
    IF history = <<>> THEN cursor = -1
    ELSE 0 <= cursor /\ cursor < Len(history)

\* The cursor stands on the oldest entry of a full history after a jump.
C18_Witness ==
    /\ Len(history) = HistoryCap
    /\ cursor = 0
    /\ historyMode
    /\ pushes > HistoryCap

\* C19: every pushHistory call on the canvas leaves the cursor on the entry
\* it appended, the last one, wherever the cursor was; the 51st push drops
\* entry 0 and leaves the cursor at 49.
C19_PushMovesCursorToLast ==
    /\ [][pushes' = pushes + 1 =>
            /\ cursor' = Len(history') - 1
            /\ history'[Len(history')] = ToJSON(canvas'.objects)]_vars
    /\ [][(pushes = HistoryCap /\ pushes' = HistoryCap + 1) =>
            /\ cursor' = HistoryCap - 1
            /\ Len(history) = HistoryCap
            /\ history' = Append(Tail(history), ToJSON(canvas'.objects))]_vars

\* The 51st push was made with the cursor moved back by undo before it.
C19_Witness ==
    /\ pushes = HistoryCap + 1
    /\ cursor = HistoryCap - 1
    /\ Len(history) = HistoryCap
    /\ objects.loaded

\* C20, as stated: whatever the cursor, an undo followed at once by a redo
\* leaves the cursor where it was before the undo and the canvas showing
\* the object list it showed then.
C20_UndoRedoRestores ==
    (pair.phase = "redone" /\ canvas.exists)
      => (cursor = pair.cursor /\ ToJSON(canvas.objects) = pair.shown)

\* C20, amended: when the cursor is above 0 and the canvas shows the
\* history entry at the cursor, an undo followed at once by a redo leaves
\* the cursor where it was and the canvas showing that entry again; at
\* cursor 0 the undo does nothing, and the redo after it moves one entry
\* forward when there is one; the canvas shows what the redo loaded, the
\* entry at the cursor, whatever it showed before.
C20_UndoRedoRestoresAboveZero ==
    (pair.phase = "redone" /\ canvas.exists) =>
        /\ pair.cursor > 0 => cursor = pair.cursor
        /\ (pair.cursor > 0 /\ pair.shown = history[pair.cursor + 1])
              => ToJSON(canvas.objects) = pair.shown
        /\ pair.cursor <= 0 =>
              cursor = IF pair.cursor + 1 <= Len(history) - 1
                         THEN pair.cursor + 1 ELSE Len(history) - 1
        /\ (pair.cursor > 0 \/ pair.cursor < Len(history) - 1)
              => ToJSON(canvas.objects) = history[cursor + 1]

\* An undo and the redo after it were made from a cursor above 0 on a
\* canvas showing the entry at the cursor, in a full history.
C20_Witness ==
    /\ pair.phase = "redone"
    /\ pair.cursor > 1
    /\ cursor = pair.cursor
    /\ pair.shown = history[pair.cursor + 1]
    /\ ToJSON(canvas.objects) = pair.shown
    /\ pair.shown # <<>>
    /\ Len(history) = HistoryCap

\* { ns: "ai-tutor/wb", type: "command", payload: { action } }
UndoCommand == EmbMessage(TRUE, NS, "command", "", "", "", "undo", 0, FALSE, <<>>)
RedoCommand == EmbMessage(TRUE, NS, "command", "", "", "", "redo", 0, FALSE, <<>>)

\* C21: an undo command changes nothing of the view when the cursor is at
\* or below 0; otherwise it moves the cursor back by exactly one and makes
\* the canvas show the entry at the new cursor, and the history keeps its
\* entries and its length.
C21_UndoStepsBack ==
    [][cmdListener(UndoCommand) =>
         IF cursor <= 0
           THEN UNCHANGED embstate
           ELSE /\ cursor' = cursor - 1
                /\ canvas'.objects = LoadFromJSON(history[cursor' + 1])
                /\ history' = history]_vars

\* An undo was made from a cursor above 0, and the canvas shows the entry
\* before the one the cursor was on, which differs from it.
C21_Witness ==
    /\ pair.phase = "undone"
    /\ pair.cursor > 0
    /\ cursor = pair.cursor - 1
    /\ ToJSON(canvas.objects) = history[cursor + 1]
    /\ history[cursor + 1] # history[cursor + 2]

\* C22: a redo command changes nothing of the view when the cursor is at
\* or past the last entry; otherwise it moves the cursor forward by
\* exactly one and makes the canvas show the entry at the new cursor, and
\* the history keeps its entries and its length.
C22_RedoStepsForward ==
    [][cmdListener(RedoCommand) =>
         IF cursor >= Len(history) - 1
           THEN UNCHANGED embstate
           ELSE /\ cursor' = cursor + 1
                /\ canvas'.objects = LoadFromJSON(history[cursor' + 1])
                /\ history' = history]_vars

\* A redo was made from the entry before the last one, and the canvas
\* shows the last entry, which differs from the one before it.
C22_Witness ==
    /\ pair.phase = "redone"
    /\ Len(history) >= 2
    /\ cursor = Len(history) - 1
    /\ cursor = pair.cursor
    /\ ToJSON(canvas.objects) = history[cursor + 1]
    /\ history[cursor + 1] # history[cursor]

(***************************************************************************)
(* Properties of the reattach path (Spec)                                  *)
(***************************************************************************)

\* C29: when the probe of a session's own sandbox URL (the reattach path)
\* returns false, its completion leaves status and url as they are: a
\* status of "starting" stays "starting", and the status does not become
\* "error" in that step.
C29_ReattachProbeFailureIsSilent ==
    [][(\E u \in SessionUrls : probeSettles(ProbeTask("reattach", u), FALSE))
         => /\ UNCHANGED <<status, url>>
            /\ status = "starting" => status' = "starting"
            /\ status' = "error" => status = "error"]_vars

\* A session with a sandbox URL was reattached from idle without any
\* launch, its probe has settled without success, and the hook is left in
\* "starting" with no URL and nothing in flight.
C29_Witness ==
    /\ session \in {SessionRecord(u) : u \in SessionUrls}
    /\ effDeps = Deps
    /\ status = "starting"
    /\ idleLaunches = 0
    /\ url = Null
    /\ tasks = EmptyBag

(***************************************************************************)
(* Properties of the backend client (SpecClient)                           *)
(***************************************************************************)

\* C30: whatever init messages the view accepts, with whatever backend URL
\* and token, the backend client is constructed at most once, at the first
\* accepted init and from its payload, and the view keeps that client.
C30_ClientBuiltOnce ==
    /\ [][client.built => client' = client]_vars
    /\ [][client' # client =>
            /\ ~init.set /\ init'.set
            /\ client'.built
            /\ client'.url = init'.convexUrl
            /\ client'.token = init'.token]_vars

\* The view, with InnerWhiteboard mounted, has accepted an init whose
\* backend URL and token both differ from those its client was built from.
C30_Witness ==
    /\ client.built
    /\ view = "inner"
    /\ init.set
    /\ init.convexUrl # client.url
    /\ init.token # client.token

(***************************************************************************)
(* Properties of the sync engine (SpecSync)                                *)
(***************************************************************************)

\* A sync effect ran on the canvas in the step.
SyncRan == canvas.exists /\ \E l \in SyncLists : objectsDelivered(l)

\* C25: the primitives on the canvas and the host elements of the overlay
\* layer after a sync effect are those of the list it was given, whatever
\* the canvas and the layer held before it: an earlier list, the same
\* list, what an undo, a redo or a jump loaded.
C25_SceneDependsOnListOnly ==
    [][SyncRan =>
         /\ canvas'.objects = Primitives(objects'.list)
         /\ widgets' = Hosts(objects'.list)]_vars

\* A list was reconciled on a canvas that a jump had loaded, right after a
\* reconciliation that had left the same serialised scene, with a widget
\* in the overlay layer.
C25_Witness ==
    /\ eout.rendered
    /\ historyMode
    /\ Len(history) = MaxSyncHistory
    /\ history[Len(history)] = history[Len(history) - 1]
    /\ canvas.objects = Primitives(objects.list)
    /\ Len(canvas.objects) > 0
    /\ Len(widgets) > 0

\* The kinds whose branch of the sync loop adds a primitive to the canvas.
DrawnKinds ==
    IF build = "first" THEN {"ink", "rect", "ellipse", "arrow"}
    ELSE {"ink", "rect", "ellipse", "line", "arrow", "text"}

\* C26: a sync effect given a list with objects of kinds it does not
\* handle makes one primitive for each object of a drawn kind and one host
\* element for each widget, in list order, and nothing for the others;
\* it posts no error, goes on to the render request and the history push,
\* and leaves the whiteboard mounted.
C26_UnknownKindsSkipped ==
    [][SyncRan =>
         LET l == objects'.list
             drawn == SelectSeq(l, LAMBDA o : o.kind \in DrawnKinds)
             hosted == SelectSeq(l, LAMBDA o : o.kind = "widget")
         IN /\ Len(canvas'.objects) = Len(drawn)
            /\ \A i \in 1..Len(drawn) : canvas'.objects[i].id = drawn[i].id
            /\ Len(widgets') = Len(hosted)
            /\ \A i \in 1..Len(hosted) : widgets'[i].entry = hosted[i].entry
            /\ eout'.rendered
            /\ eout'.posted = <<>>
            /\ view' = "inner"
            /\ history'[Len(history')] = ToJSON(canvas'.objects)]_vars

\* The sync effect has just run on a widget, an object of an unknown kind
\* and a rect, in that order: the canvas holds the rect, the layer the
\* widget's host element.
C26_Witness ==
    /\ eout.rendered
    /\ objects.list = <<ObjWidget, ObjStar, ObjRect>>
    /\ canvas.objects = <<[shape |-> "Rect", id |-> "r1"]>>
    /\ Len(widgets) = 1
    /\ widgets[1].entry = "quiz"

\* A widget's root rendered and the widget threw e.
WidgetThrew(i, e) == widgetRenders(i, e) /\ e # NoError

\* C27: when a widget throws while it renders, its ErrorBoundary shows
\* the fallback in its place and posts one "widget-error" message carrying
\* String(error); the canvas, the other host elements of the layer, the
\* history and the cursor stay as the reconciliation pass left them, and
\* the whiteboard stays mounted.  The pass that made the widget's host
\* element pushed its result to the history.
C27_WidgetErrorContained ==
    /\ [][\A i \in 1..Len(widgets), e \in Errors :
             WidgetThrew(i, e) =>
               /\ Len(eout'.posted) = 1
               /\ eout'.posted[1].ns = NS
               /\ eout'.posted[1].type = "widget-error"
               /\ eout'.posted[1].payload.error = <<e.name, ": ", e.message>>
               /\ widgets'[i].state = "fallback"
               /\ \A j \in 1..Len(widgets) : j # i => widgets'[j] = widgets[j]
               /\ Len(widgets') = Len(widgets)
               /\ UNCHANGED <<canvas, history, cursor, view, objects>>]_vars
    /\ [][(SyncRan /\ widgets' # <<>>) =>
             /\ history'[Len(history')] = ToJSON(canvas'.objects)
             /\ cursor' = Len(history') - 1]_vars

\* A widget has just thrown: its host element shows the fallback, the
\* message is posted, and the rect of the same pass is on the canvas.
C27_Witness ==
    /\ eout.posted # <<>>
    /\ eout.posted[1].type = "widget-error"
    /\ objects.list = <<ObjWidget, ObjStar, ObjRect>>
    /\ Len(widgets) = 1
    /\ widgets[1].state = "fallback"
    /\ canvas.objects = <<[shape |-> "Rect", id |-> "r1"]>>
    /\ history[cursor + 1] = ToJSON(canvas.objects)

(***************************************************************************)
(* Properties of the snapshot messages (SpecSnapshot)                      *)
(***************************************************************************)

\* C23: the snapshot interval fires every 5 s; at a firing a snapshot
\* message is posted if and only if at least 60 s have passed since the
\* interval last posted one (since the whiteboard mounted, before the
\* first) or at least 20 strokes have been stored since; the step that
\* posts it sets the mutation counter to 0 and the time of the last
\* snapshot to the current time.
C23_FlushWhenDueAndOnlyThen ==
    [][snapshotCheck =>
         LET due == \/ clock - flushedAt >= SnapshotMaxAgeMs
                    \/ strokes >= MutationThreshold
         IN /\ PostedSnapshot(eout') <=> due
            /\ PostedSnapshot(eout') =>
                  (mutationCounter' = 0 /\ lastSnapshotTs' = clock)
            /\ ~PostedSnapshot(eout') =>
                  UNCHANGED <<mutationCounter, lastSnapshotTs>>
            /\ snapshotInterval'.due = clock + SnapshotCheckMs]_vars

\* The interval has just posted a snapshot for the strokes alone: 20 of
\* them were stored in less than 60 s.
C23_Witness ==
    /\ PostedSnapshot(eout)
    /\ mutationCounter = 0
    /\ strokes = 0
    /\ lastSnapshotTs = clock
    /\ flushedAt = clock
    /\ clock < SnapshotMaxAgeMs
    /\ Len(canvas.objects) >= MutationThreshold

\* C24, as stated: a snapshot message is posted to the parent by the
\* firing of the 5 s interval and by nothing else, so that a snapshot
\* message follows the one before it by 5 s or more.
C24_SnapshotsOnlyFromInterval ==
    /\ [][PostedSnapshot(eout') => snapshotCheck]_vars
    /\ [][(PostedSnapshot(eout') /\ sinceSent >= 0)
            => sinceSent >= SnapshotCheckMs]_vars

\* C28, as stated: every message the host hook or the embedded view posts
\* carries ns = "ai-tutor/wb" and v = 1.
C28_EveryMessageNamespacedAndVersioned ==
    [][/\ \A i \in 1..Len(eout'.posted) :
             eout'.posted[i].ns = NS /\ eout'.posted[i].v = 1
       /\ \A i \in 1..Len(out'.posted) :
             out'.posted[i].ns = NS /\ out'.posted[i].v = 1]_vars

(***************************************************************************)
(* Properties of the sync engine under fair scheduling (SpecSyncLive)      *)
(***************************************************************************)

\* C31, as stated: once the objects query has delivered a list, the canvas
\* eventually exists and holds the primitives of the list delivered last,
\* also when the list came while import("fabric") was still pending.
C31_DeliveredListEventuallyDrawn ==
    objects.loaded ~>
        (canvas.exists /\ canvas.objects = Primitives(objects.list))

(***************************************************************************)
(* Properties of the life of InnerWhiteboard (SpecTeardown)                *)
(***************************************************************************)

\* C32, as stated: once InnerWhiteboard has been unmounted no snapshot
\* interval of the view is active, whenever the pending import resolves;
\* and at no time is more than one snapshot interval of the view active.
C32_NoIntervalAfterTeardownAndOnlyOne ==
    /\ view = "gone" => snapshotInterval.active = 0
    /\ snapshotInterval.active <= 1

(***************************************************************************)
(* Properties of the reconciliation (SpecReconcile)                        *)
(***************************************************************************)

\* C33, as stated: after a sync effect the canvas holds, for the objects
\* of the list whose kind is ink, rect, ellipse, arrow, line or text, one
\* primitive each, tagged with the object's id, in list order, and no
\* other primitive.
C33_OnePrimitivePerListedObject ==
    [][(canvas.exists /\ \E l \in ReconcileLists : objectsDelivered(l)) =>
         LET named == SelectSeq(objects'.list,
                        LAMBDA o : o.kind \in {"ink", "rect", "ellipse",
                                               "arrow", "line", "text"})
         IN /\ Len(canvas'.objects) = Len(named)
            /\ \A i \in 1..Len(named) : canvas'.objects[i].id = named[i].id]_vars

(***************************************************************************)
(* Properties of the hook's url and status (Spec)                          *)
(***************************************************************************)

\* C34: whenever status is ready the url is set; the url changes only at
\* the step in which a health probe of the new value returned true; and
\* once set the url is never null again, whatever retry() and the other
\* steps do.
C34_ReadyHasProbedUrl ==
    /\ [](status = "ready" => url # Null)
    /\ [][url' # url =>
            \E t \in ProbeTasks : probeSettles(t, TRUE) /\ url' = t.url]_vars
    /\ [][url # Null => url' # Null]_vars

\* retry() was called with the url set, the launch it set off is still to
\* resolve, and the status is ready again, by the handshake or by a probe
\* that was still running.
C34_Witness ==
    /\ status = "ready"
    /\ url = UrlB
    /\ BagIn(LaunchTask, tasks)

(***************************************************************************)
(* Frame of pushHistory (SpecHistory)                                      *)
(***************************************************************************)

\* C35: a pushHistory on the canvas removes nothing but the oldest entry,
\* and that only when the history already holds 50 entries; every other
\* entry stays where it was relative to the others, the entries after the
\* cursor included when undo calls went before, and the new entry comes
\* after them all.  A step without a pushHistory leaves the history as it
\* is.
C35_PushKeepsAllButOldestAtCap ==
    /\ [][pushes' # pushes =>
            LET kept == IF Len(history) >= HistoryCap THEN Tail(history) ELSE history
            IN /\ Len(history') = Len(kept) + 1
               /\ SubSeq(history', 1, Len(kept)) = kept
               /\ history'[Len(history')] = ToJSON(canvas'.objects)]_vars
    /\ [][pushes' = pushes => history' = history]_vars

\* A sync effect has just pushed right after an undo that had stepped
\* back from a non-empty scene: the entry the undo stepped back from is
\* still in the history, after the cursor the undo left and before the
\* new last entry.
C35_Witness ==
    /\ pair.phase = "pushed"
    /\ pair.cursor > 0
    /\ Len(history) < HistoryCap
    /\ pair.cursor + 1 < Len(history)
    /\ history[pair.cursor + 1] = pair.shown
    /\ pair.shown # <<>>
    /\ cursor = Len(history) - 1

(***************************************************************************)
(* Properties of the handshake with one init message (SpecSingleInit)      *)
(***************************************************************************)

\* C36, as stated: once the view has captured a usable init message it
\* eventually shows InnerWhiteboard with the session id of that message,
\* without a further init message.
C36_SingleInitMountsWhiteboard ==
    init.set ~> (view = "inner" /\ SessionInUse = init.sessionId)

(***************************************************************************)
(* Properties of the snapshots of pushHistory (SpecPushSnapshot)           *)
(***************************************************************************)

\* C37, as stated: a snapshot message posted by pushHistory carries the
\* history entry at the cursor and an index, and the index differs from
\* the index of every snapshot message the view posted before.
C37_SnapshotCarriesEntryAndFreshIndex ==
    [][PostedSnapshot(eout') =>
         LET p == eout'.posted[1].payload
         IN /\ p.objects = history'[cursor' + 1]
            /\ p.index \notin sent]_vars

====
